---- MODULE Spec2Model ----
(***************************************************************************)
(* Model of the reconciliation and upsert passes of scrapinapp              *)
(* (views.py, utils.py) over the relational schema of models.py.            *)
(*                                                                         *)
(* The database is one record `db` with one field per table; a table is a  *)
(* set of rows, every row carrying its primary key `id`.  Every view is    *)
(* one action that runs the whole handler on an input document.  Where a   *)
(* view fetches with a thread pool, or two requests run at once, the       *)
(* workers and the handlers take their steps one at a time.                *)
(*                                                                         *)
(* Text that the code converts (file stems, certification names, slugs,    *)
(* policy titles and policy ids) is a sequence of one-character strings,   *)
(* so that upper(), lower(), replace() and slugify() are computed; every   *)
(* other text field is an opaque string.  Python's None is the value None  *)
(* (NoneS for the fields held as character sequences).                     *)
(***************************************************************************)
EXTENDS Integers, Sequences, FiniteSets, TLC

VARIABLES
    db,       \* the database
    last,     \* the last pass: its name, its input and what it returned
    before,   \* the database as the last pass found it
    prev,     \* whether the pass before the last had its name and input (same),
              \* and what that pass returned
    passes,   \* the number of passes run
    futures,  \* the futures of the thread pool of the view that is fetching
    collected,\* the list the view fills from as_completed()
    threads   \* the request handlers that run at the same time

vars == <<db, last, before, prev, passes, futures, collected, threads>>

None == "<None>"
NoneS == <<"<None>">>

----------------------------------------------------------------------------
(* Text conversions *)

Lowers == <<"a","b","c","d","e","f","g","h","i","j","k","l","m",
            "n","o","p","q","r","s","t","u","v","w","x","y","z">>
Uppers == <<"A","B","C","D","E","F","G","H","I","J","K","L","M",
            "N","O","P","Q","R","S","T","U","V","W","X","Y","Z">>
Digits == {"0","1","2","3","4","5","6","7","8","9"}

Range(s) == {s[i] : i \in DOMAIN s}

IndexIn(c, s) == CHOOSE i \in DOMAIN s : s[i] = c

lower_char(c) == IF c \in Range(Uppers) THEN Lowers[IndexIn(c, Uppers)] ELSE c

upper_char(c) == IF c \in Range(Lowers) THEN Uppers[IndexIn(c, Lowers)] ELSE c

str_lower(s) == [i \in DOMAIN s |-> lower_char(s[i])]

str_upper(s) == [i \in DOMAIN s |-> upper_char(s[i])]

\* str.replace(old, new) for one-character old and new
str_replace(s, old, new) == [i \in DOMAIN s |-> IF s[i] = old THEN new ELSE s[i]]

\* regex classes \w and \s on the model's alphabet
IsWordChar(c) == c \in Range(Lowers) \cup Range(Uppers) \cup Digits \cup {"_"}
IsSpaceChar(c) == c = " "

\* re.sub(r"[^\w\s-]", "", value)
RECURSIVE strip_other(_)
strip_other(s) ==
    IF s = <<>> THEN <<>>
    ELSE IF IsWordChar(Head(s)) \/ IsSpaceChar(Head(s)) \/ Head(s) = "-"
         THEN <<Head(s)>> \o strip_other(Tail(s))
         ELSE strip_other(Tail(s))

\* re.sub(r"[-\s]+", "-", value)
RECURSIVE collapse_dashes(_)
collapse_dashes(s) ==
    IF s = <<>> THEN <<>>
    ELSE IF IsSpaceChar(Head(s)) \/ Head(s) = "-"
         THEN IF Tail(s) # <<>> /\ (IsSpaceChar(Head(Tail(s))) \/ Head(Tail(s)) = "-")
              THEN collapse_dashes(Tail(s))
              ELSE <<"-">> \o collapse_dashes(Tail(s))
         ELSE <<Head(s)>> \o collapse_dashes(Tail(s))

\* str.strip("-_")
RECURSIVE lstrip_dash(_)
lstrip_dash(s) ==
    IF s # <<>> /\ Head(s) \in {"-", "_"} THEN lstrip_dash(Tail(s)) ELSE s

RECURSIVE rstrip_dash(_)
rstrip_dash(s) ==
    IF s # <<>> /\ s[Len(s)] \in {"-", "_"}
    THEN rstrip_dash(SubSeq(s, 1, Len(s) - 1))
    ELSE s

\* django.utils.text.slugify (allow_unicode=False) on ASCII text
slugify(value) ==
    rstrip_dash(lstrip_dash(collapse_dashes(strip_other(str_lower(value)))))

\* ' '.join([part.upper() for part in stem.split('_')])
cert_name_of_stem(stem) == str_upper(str_replace(stem, "_", " "))

\* name.lower().replace(" ", "-")
eramba_slug(name) == str_replace(str_lower(name), " ", "-")

----------------------------------------------------------------------------
(* Tables *)

EmptyDb ==
    [Certification |-> {}, Clause |-> {}, Control |-> {}, Policy |-> {},
     FrameworkStandard |-> {}, PolicyClause |-> {}, PolicyControl |-> {},
     ControlClause |-> {}]

MaxOf(S) == IF S = {} THEN 0 ELSE CHOOSE m \in S : \A x \in S : x <= m

\* the next AutoField value of a table
NextId(table) == MaxOf({r.id : r \in table}) + 1

NoRow == [id |-> 0]

\* the value an ORM call returns: the database after it, the row it yields,
\* whether it inserted the row, and whether it raised
Ret(d, obj, created, exc) == [db |-> d, obj |-> obj, created |-> created, exc |-> exc]

\* the unique index on Certification.slug left out
Certification_integrity_error_name_only(d, row) ==
    \/ row.name = NoneS
    \/ \E r \in d.Certification : r.name = row.name

\* models.py: unique=True / unique_together / NOT NULL, as the INSERT enforces them
Certification_integrity_error(d, row) ==
    \/ row.name = NoneS
    \/ \E r \in d.Certification : r.name = row.name \/ r.slug = row.slug

Clause_integrity_error(d, row) ==
    \/ row.reference_id = None
    \/ \E r \in d.Clause :
          r.certification = row.certification /\ r.reference_id = row.reference_id

Control_integrity_error(d, row) ==
    \/ row.short_name = None
    \/ row.name = None
    \/ \E r \in d.Control :
          \/ r.short_name = row.short_name
          \/ (row.custom_short_name # None /\ r.custom_short_name = row.custom_short_name)

Policy_integrity_error(d, row) ==
    \/ row.policy_id = NoneS
    \/ row.policy_reference = NoneS
    \/ \E r \in d.Policy :
          r.policy_id = row.policy_id \/ r.policy_reference = row.policy_reference

\* Certification.save(): the slug is derived from the name when it is empty
Certification_save_slug(name, slug) == IF slug = <<>> THEN slugify(name) ELSE slug

\* Model.objects.create(**fields): INSERT, or IntegrityError
Certification_create(d, f) ==
    LET row == [id |-> NextId(d.Certification), name |-> f.name,
                slug |-> Certification_save_slug(f.name, f.slug),
                description |-> f.description, url |-> f.url,
                version |-> f.version, regulation_name |-> f.regulation_name]
    IN IF Certification_integrity_error(d, row)
       THEN Ret(d, NoRow, FALSE, TRUE)
       ELSE Ret([d EXCEPT !.Certification = @ \cup {row}], row, TRUE, FALSE)

Clause_create(d, f) ==
    LET row == [id |-> NextId(d.Clause), certification |-> f.certification,
                reference_id |-> f.reference_id,
                display_identifier |-> f.display_identifier, title |-> f.title,
                description |-> f.description, original_id |-> f.original_id]
    IN IF Clause_integrity_error(d, row)
       THEN Ret(d, NoRow, FALSE, TRUE)
       ELSE Ret([d EXCEPT !.Clause = @ \cup {row}], row, TRUE, FALSE)

Control_create(d, f) ==
    LET row == [id |-> NextId(d.Control), short_name |-> f.short_name,
                custom_short_name |-> f.custom_short_name, name |-> f.name,
                description |-> f.description, original_id |-> f.original_id,
                category |-> None, control_gathered_from |-> None]
    IN IF Control_integrity_error(d, row)
       THEN Ret(d, NoRow, FALSE, TRUE)
       ELSE Ret([d EXCEPT !.Control = @ \cup {row}], row, TRUE, FALSE)

Policy_create(d, f) ==
    LET row == [id |-> NextId(d.Policy), policy_id |-> f.policy_id,
                security_group |-> f.security_group,
                policy_reference |-> f.policy_reference,
                policy_doc |-> f.policy_doc, policy_version |-> f.policy_version,
                title |-> f.title, policy_template |-> f.policy_template,
                policy_gathered_from |-> f.policy_gathered_from]
    IN IF Policy_integrity_error(d, row)
       THEN Ret(d, NoRow, FALSE, TRUE)
       ELSE Ret([d EXCEPT !.Policy = @ \cup {row}], row, TRUE, FALSE)

\* QuerySet.first(): the matching row of least primary key, or NoRow
First(rows) == IF rows = {} THEN NoRow
               ELSE CHOOSE r \in rows : \A o \in rows : r.id <= o.id

\* Model.objects.get_or_create(<key>, defaults=...): the matching row, else
\* create(); an IntegrityError of the INSERT is raised again when the second
\* get() still finds nothing
GetOrCreate(d, matching, created) ==
    IF matching # {} THEN Ret(d, First(matching), FALSE, FALSE) ELSE created

Certification_get_or_create(d, name, defaults) ==
    GetOrCreate(d, {r \in d.Certification : r.name = name},
                Certification_create(d, [defaults EXCEPT !.name = name]))

\* update_or_create() in the place of get_or_create(): a row that matches
\* takes the defaults
Clause_update_or_create(d, cert, reference_id, defaults) ==
    LET matching == {r \in d.Clause : r.certification = cert
                                      /\ r.reference_id = reference_id}
        row == [defaults EXCEPT !.certification = cert,
                                !.reference_id = reference_id]
                   @@ [id |-> First(matching).id]
    IN IF matching = {} THEN Clause_create(d, row)
       ELSE Ret([d EXCEPT !.Clause = (@ \ {First(matching)}) \cup {row}],
                row, FALSE, FALSE)

Clause_get_or_create(d, cert, reference_id, defaults) ==
    GetOrCreate(d, {r \in d.Clause : r.certification = cert
                                     /\ r.reference_id = reference_id},
                Clause_create(d, [defaults EXCEPT !.certification = cert,
                                                  !.reference_id = reference_id]))

\* the row created with the source of the Eramba passes
Policy_get_or_create_as_eramba(d, policy_id, defaults) ==
    GetOrCreate(d, {r \in d.Policy : r.policy_id = policy_id},
                Policy_create(d, [defaults EXCEPT !.policy_id = policy_id,
                                                  !.policy_gathered_from = "ER"]))

Policy_get_or_create(d, policy_id, defaults) ==
    GetOrCreate(d, {r \in d.Policy : r.policy_id = policy_id},
                Policy_create(d, [defaults EXCEPT !.policy_id = policy_id]))

Control_get_or_create(d, short_name, defaults) ==
    GetOrCreate(d, {r \in d.Control : r.short_name = short_name},
                Control_create(d, [defaults EXCEPT !.short_name = short_name]))

\* the through tables of the three ManyToManyFields
Linked(table, a, b, x, y) == \E e \in table : e[a] = x /\ e[b] = y

EdgeRow(table, a, b, x, y) == (a :> x) @@ (b :> y) @@ ("id" :> NextId(table))

\* a through row inserted whether or not the pair is there
M2M_add_unchecked(table, a, b, x, y) == table \cup {EdgeRow(table, a, b, x, y)}

\* related manager .add(obj): inserts the through row unless the pair is there
M2M_add(table, a, b, x, y) ==
    IF Linked(table, a, b, x, y) THEN table
    ELSE table \cup {EdgeRow(table, a, b, x, y)}

----------------------------------------------------------------------------
(* populate_database: the section-based pass *)

ZeroStats ==
    [files_processed |-> 0, certifications |-> 0, clauses |-> 0, policies |-> 0,
     controls |-> 0, policy_clause_links |-> 0, control_clause_links |-> 0,
     errors |-> <<>>]

\* the running state of a pass: database, statistics, and a raised exception
Run(d, stats, exc) == [db |-> d, stats |-> stats, exc |-> exc]

Bump(stats, counter, yes) ==
    IF yes THEN [stats EXCEPT ![counter] = @ + 1] ELSE stats

\* the link made and counted without looking for the edge first
populate_link_policy_unchecked(st, clause, policy) ==
    Run([st.db EXCEPT !.PolicyClause =
             M2M_add(@, "clause", "policy", clause.id, policy.id)],
        Bump(st.stats, "policy_clause_links", TRUE), FALSE)

\* views.py 102-105: link the policy to the clause unless it is linked
populate_link_policy(st, clause, policy) ==
    IF Linked(st.db.PolicyClause, "clause", "policy", clause.id, policy.id)
    THEN st
    ELSE Run([st.db EXCEPT !.PolicyClause =
                  M2M_add(@, "clause", "policy", clause.id, policy.id)],
             Bump(st.stats, "policy_clause_links", TRUE), FALSE)

\* views.py 122-125: link the control to the clause unless it is linked
populate_link_control(st, clause, control) ==
    IF Linked(st.db.ControlClause, "clause", "control", clause.id, control.id)
    THEN st
    ELSE Run([st.db EXCEPT !.ControlClause =
                  M2M_add(@, "clause", "control", clause.id, control.id)],
             Bump(st.stats, "control_clause_links", TRUE), FALSE)

\* views.py 89-105: one entry of programPolicyMapping
populate_policy(st, clause, policy_data) ==
    LET r == Policy_get_or_create(st.db, policy_data.shortName,
                 [policy_id |-> policy_data.shortName,
                  policy_reference |-> policy_data.id,
                  policy_doc |-> policy_data.description,
                  title |-> policy_data.title,
                  policy_gathered_from |-> "TC",
                  security_group |-> None, policy_version |-> None,
                  policy_template |-> None])
    IN IF r.exc THEN Run(st.db, st.stats, TRUE)
       ELSE populate_link_policy(
                Run(r.db, Bump(st.stats, "policies", r.created), FALSE),
                clause, r.obj)

\* views.py 109-125: one entry of programControlMapping
populate_control(st, clause, control_data) ==
    LET r == Control_get_or_create(st.db, control_data.shortName,
                 [short_name |-> control_data.shortName,
                  custom_short_name |-> control_data.customShortName,
                  name |-> control_data.name,
                  description |-> control_data.description,
                  original_id |-> control_data.id])
    IN IF r.exc THEN Run(st.db, st.stats, TRUE)
       ELSE populate_link_control(
                Run(r.db, Bump(st.stats, "controls", r.created), FALSE),
                clause, r.obj)

RECURSIVE populate_policies(_, _, _)
populate_policies(st, clause, mapping) ==
    IF st.exc \/ mapping = <<>> THEN st
    ELSE populate_policies(populate_policy(st, clause, Head(mapping)),
                           clause, Tail(mapping))

RECURSIVE populate_controls(_, _, _)
populate_controls(st, clause, mapping) ==
    IF st.exc \/ mapping = <<>> THEN st
    ELSE populate_controls(populate_control(st, clause, Head(mapping)),
                           clause, Tail(mapping))

\* views.py 108-109: the subsections of a section, in order
RECURSIVE populate_subsections(_, _, _)
populate_subsections(st, clause, subsections) ==
    IF st.exc \/ subsections = <<>> THEN st
    ELSE populate_subsections(
             populate_controls(st, clause, Head(subsections).programControlMapping),
             clause, Tail(subsections))

\* views.py 74-125: one section of a file
populate_section(st, cert, section) ==
    LET r == Clause_get_or_create(st.db, cert.id, section.referenceId,
                 [certification |-> cert.id,
                  reference_id |-> section.referenceId,
                  display_identifier |-> section.displayIdentifier,
                  title |-> section.title,
                  description |-> section.description,
                  original_id |-> section.id])
    IN IF r.exc THEN Run(st.db, st.stats, TRUE)
       ELSE populate_subsections(
                populate_policies(
                    Run(r.db, Bump(st.stats, "clauses", r.created), FALSE),
                    r.obj, section.programPolicyMapping),
                r.obj, section.subsections)

RECURSIVE populate_sections(_, _, _)
populate_sections(st, cert, data) ==
    IF st.exc \/ data = <<>> THEN st
    ELSE populate_sections(populate_section(st, cert, Head(data)), cert, Tail(data))

\* views.py 62-131: one file; an exception ends the file and is recorded
populate_file(st, json_file) ==
    LET counted == [st.stats EXCEPT !.files_processed = @ + 1]
        r == Certification_get_or_create(st.db, cert_name_of_stem(json_file.stem),
                 [name |-> cert_name_of_stem(json_file.stem), slug |-> <<>>,
                  description |-> None, url |-> None, version |-> None,
                  regulation_name |-> None])
        done == IF r.exc THEN Run(st.db, counted, TRUE)
                ELSE populate_sections(
                         Run(r.db, Bump(counted, "certifications", r.created), FALSE),
                         r.obj, json_file.data)
    IN IF done.exc
       THEN Run(done.db,
                [done.stats EXCEPT !.errors = Append(@, json_file.stem)], FALSE)
       ELSE done

RECURSIVE populate_files(_, _)
populate_files(st, files) ==
    IF files = <<>> THEN st
    ELSE populate_files(populate_file(st, Head(files)), Tail(files))

\* views.py 37-147: the whole view; its result is the response
populate_database(d, files) ==
    LET st == populate_files(Run(d, ZeroStats, FALSE), files)
    IN [db |-> st.db,
        status |-> IF st.stats.errors = <<>> THEN "success" ELSE "partial",
        stats |-> st.stats]

----------------------------------------------------------------------------
(* map_controls_with_policy: the TrustCloud policy-control mapping pass *)

\* related manager .remove(*ids)
M2M_remove(table, a, b, x, ys) ==
    {e \in table : ~(e[a] = x /\ e[b] \in ys)}

RECURSIVE M2M_add_all(_, _, _, _, _)
M2M_add_all(table, a, b, x, ys) ==
    IF ys = <<>> THEN table
    ELSE M2M_add_all(M2M_add(table, a, b, x, Head(ys)), a, b, x, Tail(ys))

\* .add(*objs) in the place of .set(objs): nothing is removed
M2M_set_add_only(table, a, b, x, ys) == M2M_add_all(table, a, b, x, ys)

\* related manager .set(objs): removes the linked rows that are not among
\* objs, then adds the ones of objs that are not linked
M2M_set(table, a, b, x, ys) ==
    LET old_ids == {e[b] : e \in {e \in table : e[a] = x}}
    IN M2M_add_all(M2M_remove(table, a, b, x, old_ids \ Range(ys)), a, b, x, ys)

\* the controls a policy is linked to (policy.controls)
ControlsOf(d, policy_pk) ==
    {e.control : e \in {e \in d.PolicyControl : e.policy = policy_pk}}

\* views.py 272-277: Control.objects.get(original_id=cid) for every id; get()
\* raises MultipleObjectsReturned when several controls carry the id
RECURSIVE match_controls(_, _, _)
match_controls(d, control_ids, acc) ==
    IF control_ids = <<>> THEN acc
    ELSE LET cid == Head(control_ids)
             found == {c \in d.Control : c.original_id = cid}
         IN IF Cardinality(found) > 1 THEN [acc EXCEPT !.exc = TRUE]
            ELSE IF found = {}
            THEN match_controls(d, Tail(control_ids),
                     [acc EXCEPT !.missing = Append(@, cid)])
            ELSE match_controls(d, Tail(control_ids),
                     [acc EXCEPT !.matched = Append(@, First(found).id)])

\* views.py 259-292: one captured item; `trace` records, for the item, the
\* policy it resolved to, the matched controls and the policy's controls
\* before and after the item
map_item(st, item) ==
    LET found == {p \in st.db.Policy : p.policy_reference = item.policy}
        policy == First(found)
        m == IF item.control_ids = None
             THEN [matched |-> <<>>, missing |-> <<>>, exc |-> TRUE]
             ELSE match_controls(st.db, item.control_ids,
                      [matched |-> <<>>, missing |-> <<>>, exc |-> FALSE])
        d2 == IF m.matched # <<>>
              THEN [st.db EXCEPT !.PolicyControl =
                        M2M_set(@, "policy", "control", policy.id, m.matched)]
              ELSE st.db
    IN IF found = {}
       THEN [st EXCEPT !.unmatched_policies = Append(@, item.policy)]
       ELSE IF m.exc THEN [st EXCEPT !.exc = TRUE]
       ELSE [st EXCEPT
               !.db = d2,
               !.linked = IF m.matched # <<>> THEN Append(@, item.policy) ELSE @,
               !.unmatched_controls =
                   IF m.missing # <<>> THEN Append(@, item.policy) ELSE @,
               !.trace = Append(@, [policy |-> policy.id,
                                    matched |-> Range(m.matched),
                                    linked_before |-> ControlsOf(st.db, policy.id),
                                    linked_after |-> ControlsOf(d2, policy.id),
                                    edges_after |-> Cardinality(
                                        {e \in d2.PolicyControl :
                                            e.policy = policy.id})])]

RECURSIVE map_items(_, _)
map_items(st, data) ==
    IF st.exc \/ data = <<>> THEN st
    ELSE map_items(map_item(st, Head(data)), Tail(data))

\* views.py 294-300: the security group of every captured policy
RECURSIVE map_security_groups(_, _)
map_security_groups(d, data) ==
    IF data = <<>> THEN d
    ELSE LET i == Head(data)
             d2 == [d EXCEPT !.Policy =
                       {IF p.policy_reference = i.policy
                        THEN [p EXCEPT !.security_group = i.security_group]
                        ELSE p : p \in @}]
         IN map_security_groups(d2, Tail(data))

\* views.py 247-305: the whole view
map_controls_with_policy(d, data) ==
    LET st0 == [db |-> d, linked |-> <<>>, unmatched_policies |-> <<>>,
                unmatched_controls |-> <<>>, trace |-> <<>>, exc |-> FALSE]
        st == map_items(st0, data)
        result == [linked |-> st.linked, unmatched_policies |-> st.unmatched_policies,
                   unmatched_controls |-> st.unmatched_controls, trace |-> st.trace]
    IN IF data = <<>>
       THEN [db |-> d, status |-> "404", stats |-> [result EXCEPT !.trace = <<>>]]
       ELSE IF st.exc
       THEN [db |-> st.db, status |-> "500", stats |-> result]
       ELSE [db |-> map_security_groups(st.db, data), status |-> "200",
             stats |-> result]

----------------------------------------------------------------------------
(* get_eramba_controls: the Eramba security-service pass *)

\* uuid.uuid4().hex[:10]: a value no earlier call returned (two draws agree
\* with probability 2^-40); the n-th draw made while creating a policy
uuid4_hex(d, n) == "u" \o ToString(2 * NextId(d.Policy) + n)

\* policy.controls.set([control]) in the place of control.policies.add(policy)
eramba_link_policy_set(st, control, policy) ==
    IF Linked(st.db.PolicyControl, "control", "policy", control.id, policy.id)
    THEN st
    ELSE [st EXCEPT !.db.PolicyControl =
                        M2M_set(@, "policy", "control", policy.id, <<control.id>>),
                    !.policies_linked_to_controls = @ + 1]

\* views.py 791-797: link the control to the policy unless it is linked
eramba_link_policy(st, control, policy) ==
    IF Linked(st.db.PolicyControl, "control", "policy", control.id, policy.id)
    THEN st
    ELSE [st EXCEPT !.db.PolicyControl =
                        M2M_add(@, "control", "policy", control.id, policy.id),
                    !.policies_linked_to_controls = @ + 1]

\* views.py 756-797: one entry of security_policies of a control
eramba_control_policy(st, control, policy_entry) ==
    LET policy_title == policy_entry.index
        policy_obj == First({p \in st.db.Policy : p.title = policy_title})
        base_slug == slugify(policy_title)
        r == Policy_create(st.db,
                 [policy_id |-> base_slug \o <<"-", uuid4_hex(st.db, 0)>>,
                  policy_reference |->
                      base_slug \o <<"-", "r", "e", "f", "-", uuid4_hex(st.db, 1)>>,
                  title |-> policy_title, policy_gathered_from |-> "ER",
                  security_group |-> None, policy_doc |-> None,
                  policy_version |-> None, policy_template |-> None])
    IN IF policy_title = NoneS \/ policy_title = <<>> THEN st
       ELSE IF policy_obj # NoRow THEN eramba_link_policy(st, control, policy_obj)
       ELSE IF r.exc THEN st
       ELSE eramba_link_policy(
                [st EXCEPT !.db = r.db, !.policies_processed = @ + 1],
                control, r.obj)

RECURSIVE eramba_control_policies(_, _, _)
eramba_control_policies(st, control, policies_data) ==
    IF policies_data = <<>> THEN st
    ELSE eramba_control_policies(
             eramba_control_policy(st, control, Head(policies_data)),
             control, Tail(policies_data))

\* the lookup made on custom_short_name
Control_by_custom_short_name(d, short_name) ==
    First({c \in d.Control : c.custom_short_name = short_name})

\* views.py 731: Control.objects.filter(short_name=short_name).first()
Control_by_short_name(d, short_name) ==
    First({c \in d.Control : c.short_name = short_name})

\* views.py 716-797: one security service; a null description part raises
\* out of the loop, a failed INSERT of the control skips the item
eramba_control_item(st, item) ==
    LET current_control == Control_by_short_name(st.db, item.id)
        r == Control_create(st.db,
                 [short_name |-> item.id, custom_short_name |-> None,
                  name |-> item.name, description |-> item.objective,
                  original_id |-> None])
    IN IF item.objective = None THEN [st EXCEPT !.exc = TRUE]
       ELSE IF current_control # NoRow
       THEN eramba_control_policies(st, current_control, item.security_policies)
       ELSE IF r.exc THEN st
       ELSE eramba_control_policies(
                [st EXCEPT !.db = r.db, !.controls_processed = @ + 1],
                r.obj, item.security_policies)

RECURSIVE eramba_control_items(_, _)
eramba_control_items(st, data) ==
    IF st.exc \/ data = <<>> THEN st
    ELSE eramba_control_items(eramba_control_item(st, Head(data)), Tail(data))

\* views.py 688-815: the whole view, given the document the API returned
get_eramba_controls(d, data) ==
    LET st0 == [db |-> d, controls_processed |-> 0, policies_processed |-> 0,
                policies_linked_to_controls |-> 0, exc |-> FALSE]
        st == eramba_control_items(st0, data)
        counts == [controls_processed |-> st.controls_processed,
                   policies_processed |-> st.policies_processed,
                   policies_linked_to_controls |-> st.policies_linked_to_controls]
    IN [db |-> st.db,
        status |-> IF data = <<>> \/ st.exc THEN "error" ELSE "success",
        stats |-> counts]

----------------------------------------------------------------------------
(* get_eramba_clauses: the Eramba compliance-package pass *)

Warn(st, w) == [st EXCEPT !.warnings = Append(@, w)]

\* a policy created for a title that none carries, and linked
clauses_map_policy_or_create(st, clause, policy_data) ==
    LET policy_index == policy_data.index
        found == {p \in st.db.Policy : p.title = policy_index}
        r == Policy_create(st.db,
                 [policy_id |-> policy_index, policy_reference |-> policy_index,
                  title |-> policy_index, policy_gathered_from |-> "ER",
                  security_group |-> None, policy_doc |-> None,
                  policy_version |-> None, policy_template |-> None])
    IN IF policy_index = NoneS \/ policy_index = <<>> THEN st
       ELSE IF found = {}
       THEN IF r.exc THEN Warn(st, "policy_not_found")
            ELSE [st EXCEPT !.db.PolicyClause =
                                M2M_add(r.db.PolicyClause, "clause", "policy",
                                        clause.id, r.obj.id),
                            !.db.Policy = r.db.Policy]
       ELSE IF Cardinality(found) > 1 THEN [st EXCEPT !.exc = TRUE]
       ELSE Warn([st EXCEPT !.db.PolicyClause =
                               M2M_add(@, "clause", "policy", clause.id, First(found).id),
                           !.policies_mapped = @ + 1],
                 "mapped_policy")

\* views.py 623-635: one referenced policy title; get() raises
\* MultipleObjectsReturned when several policies carry the title
clauses_map_policy(st, clause, policy_data) ==
    LET policy_index == policy_data.index
        found == {p \in st.db.Policy : p.title = policy_index}
    IN IF policy_index = NoneS \/ policy_index = <<>> THEN st
       ELSE IF found = {} THEN Warn(st, "policy_not_found")
       ELSE IF Cardinality(found) > 1 THEN [st EXCEPT !.exc = TRUE]
       ELSE Warn([st EXCEPT !.db.PolicyClause =
                               M2M_add(@, "clause", "policy", clause.id, First(found).id),
                           !.policies_mapped = @ + 1],
                 "mapped_policy")

\* views.py 638-652: one referenced security service, looked up by name
clauses_map_control(st, clause, service_data) ==
    LET service_name == service_data.name
        found == {c \in st.db.Control : c.name = service_name}
    IN IF service_name = None \/ service_name = "" THEN Warn(st, "skip_service")
       ELSE IF found = {} THEN Warn(st, "control_not_found")
       ELSE IF Cardinality(found) > 1 THEN [st EXCEPT !.exc = TRUE]
       ELSE Warn([st EXCEPT !.db.ControlClause =
                               M2M_add(@, "clause", "control", clause.id, First(found).id),
                           !.controls_mapped = @ + 1],
                 "mapped_control")

RECURSIVE clauses_map_policies(_, _, _)
clauses_map_policies(st, clause, security_policies) ==
    IF st.exc \/ security_policies = <<>> THEN st
    ELSE clauses_map_policies(clauses_map_policy(st, clause, Head(security_policies)),
                              clause, Tail(security_policies))

RECURSIVE clauses_map_controls(_, _, _)
clauses_map_controls(st, clause, security_services) ==
    IF st.exc \/ security_services = <<>> THEN st
    ELSE clauses_map_controls(clauses_map_control(st, clause, Head(security_services)),
                              clause, Tail(security_services))

\* views.py 585-670: one compliance package item; an exception is recorded
\* in errors and the loop goes on with the next item
clauses_item(st, certification, item) ==
    LET r == Clause_get_or_create(st.db, certification.id, item.item_id,
                 [certification |-> certification.id, reference_id |-> item.item_id,
                  display_identifier |-> item.item_id, title |-> item.name,
                  description |-> item.description,
                  original_id |-> item.id])
        counted == IF r.created
                   THEN Warn([st EXCEPT !.db = r.db, !.clauses_created = @ + 1],
                             "created_clause")
                   ELSE Warn([st EXCEPT !.clauses_updated = @ + 1], "updating_clause")
        done == clauses_map_controls(
                    clauses_map_policies(counted, r.obj, item.security_policies),
                    r.obj, item.security_services)
    IN IF item.item_id \in {None, ""} \/ item.name \in {None, ""}
       THEN Warn(st, "skip_item")
       ELSE IF r.exc THEN [st EXCEPT !.errors = Append(@, item.item_id)]
       ELSE IF done.exc
       THEN [done EXCEPT !.exc = FALSE, !.errors = Append(@, item.item_id)]
       ELSE done

RECURSIVE clauses_items(_, _, _)
clauses_items(st, certification, package_items) ==
    IF package_items = <<>> THEN st
    ELSE clauses_items(clauses_item(st, certification, Head(package_items)),
                       certification, Tail(package_items))

RECURSIVE clauses_packages(_, _, _)
clauses_packages(st, certification, compliance_packages) ==
    IF compliance_packages = <<>> THEN st
    ELSE clauses_packages(
             clauses_items(st, certification,
                           Head(compliance_packages).compliance_package_items),
             certification, Tail(compliance_packages))

\* views.py 547-670: one fetched regulator document
clauses_entry(st, clause_entry) ==
    LET cert_data == clause_entry.data
        cert_name == cert_data.name
        r == Certification_get_or_create(st.db, cert_name,
                 [name |-> cert_name, slug |-> slugify(cert_name),
                  description |-> cert_data.description, url |-> cert_data.url,
                  version |-> cert_data.version,
                  regulation_name |-> cert_data.regulation_name])
    IN IF cert_name = NoneS \/ cert_name = <<>> THEN Warn(st, "skip_entry")
       ELSE IF r.exc THEN [st EXCEPT !.errors = Append(@, "certification")]
       ELSE clauses_packages(
                Warn([st EXCEPT !.db = r.db, !.certifications_processed = @ + 1],
                     IF r.created THEN "created_certification"
                     ELSE "using_certification"),
                r.obj, cert_data.compliance_packages)

RECURSIVE clauses_entries(_, _)
clauses_entries(st, clauses) ==
    IF clauses = <<>> THEN st
    ELSE clauses_entries(clauses_entry(st, Head(clauses)), Tail(clauses))

\* views.py 515-685: the whole view, given the documents the workers fetched,
\* in the order they completed
get_eramba_clauses(d, clauses) ==
    LET st == clauses_entries(
                  [db |-> d, certifications_processed |-> 0, clauses_created |-> 0,
                   clauses_updated |-> 0, policies_mapped |-> 0,
                   controls_mapped |-> 0, warnings |-> <<>>, errors |-> <<>>,
                   exc |-> FALSE],
                  clauses)
    IN [db |-> st.db,
        status |-> IF st.errors = <<>> THEN "success" ELSE "partial_success",
        stats |-> [certifications_processed |-> st.certifications_processed,
                   clauses_created |-> st.clauses_created,
                   clauses_updated |-> st.clauses_updated,
                   policies_mapped |-> st.policies_mapped,
                   controls_mapped |-> st.controls_mapped,
                   warnings |-> st.warnings, errors |-> st.errors]]

----------------------------------------------------------------------------
(* map_controls_to_standards: the standard-mapping batcher *)

\* utils.py 262-286, as the pairs <<raw key, display name>>
STANDARD_MAPPING_ITEMS ==
    { <<<<"s", "o", "c", "2">>, "SOC2 (TSC 2017)">>,
      <<<<"s", "o", "c", "2", "t", "y", "p", "e", "2">>, "SOC2TYPE 2">>,
      <<<<"c", "m", "m", "c", "_", "l", "1">>, "">>,
      <<<<"c", "m", "m", "c", "_", "l", "2">>, "">>,
      <<<<"h", "i", "p", "a", "a">>, "">>,
      <<<<"i", "s", "o", "2", "7", "0", "0", "1">>, "">>,
      <<<<"i", "s", "o", "2", "7", "0", "0", "1", "_", "2", "0", "2", "2">>, "ISO 27001:2022">>,
      <<<<"n", "i", "s", "t", "_", "c", "s", "f">>, "NIST CSF 1.1">>,
      <<<<"n", "i", "s", "t", "_", "s", "p", "_", "8", "0", "0", "_", "1", "7", "1">>, "">>,
      <<<<"c", "i", "s", "_", "v", "8">>, "CIS v8">>,
      <<<<"p", "c", "i", "_", "d", "s", "s", "_", "4">>, "PCI DSS 4.0">>,
      <<<<"i", "s", "o", "2", "7", "7", "0", "1">>, "ISO27701 PROCESSOR">>,
      <<<<"i", "s", "o", "2", "2", "3", "0", "1">>, "ISO 22301:2019">>,
      <<<<"i", "s", "o", "2", "7", "0", "0", "2", "_", "2", "0", "2", "2">>, "ISO 27002:2022">>,
      <<<<"d", "o", "r", "a">>, "EU Digital Operational Resilience Act (DORA)">>,
      <<<<"n", "i", "s", "2">>, "NIS2 Directive">>,
      <<<<"n", "i", "s", "t", "_", "a", "i", "_", "r", "m", "f">>, "NIST AI RMF">>,
      <<<<"i", "s", "o", "4", "2", "0", "0", "1">>, "ISO42001">>,
      <<<<"n", "c", "a", "_", "e", "c", "c", "_", "1", "_", "2", "0", "1", "8">>, "NCA ECC 1 : 2018">>,
      <<<<"i", "s", "o", "2", "7", "7", "0", "1", "_", "c", "o", "n", "t", "r", "o", "l", "l", "e", "r">>, "">>,
      <<<<"p", "c", "i", "_", "d", "s", "s">>, "">>,
      <<<<"g", "d", "p", "r">>, "">>,
      <<<<"g", "d", "p", "r", "_", "p", "r", "i", "v", "a", "c", "y">>, "">> }

\* STANDARD_MAPPING.get(key, "")
STANDARD_MAPPING_get(key) ==
    IF \E kv \in STANDARD_MAPPING_ITEMS : kv[1] = key
    THEN (CHOOSE kv \in STANDARD_MAPPING_ITEMS : kv[1] = key)[2]
    ELSE ""

\* the batch length of utils.py 324 (500 there), scaled so that a list of
\* MaxTuples tuples spans two batches
batch_size == 2

\* mappings.get(framework_key, {}).get("controls", [])
mapped_controls(mappings, framework_key) ==
    IF framework_key \in DOMAIN mappings THEN mappings[framework_key] ELSE <<>>

\* utils.py 311-321: the tuples of one framework of one control
RECURSIVE standards_of_controls(_, _, _)
standards_of_controls(control, display_name, controls) ==
    IF controls = <<>> THEN <<>>
    ELSE <<[control |-> control.id, framework |-> display_name,
            standard_id |-> Head(controls).controlId,
            name |-> IF Head(controls).name = "" THEN None ELSE Head(controls).name,
            description |-> Head(controls).description,
            section |-> Head(controls).section]>>
         \o standards_of_controls(control, display_name, Tail(controls))

\* the frameworks of one control with no key skipped
RECURSIVE standards_of_frameworks_all(_, _, _)
standards_of_frameworks_all(control, mapping_standards, mappings) ==
    IF mapping_standards = <<>> THEN <<>>
    ELSE LET framework_key == Head(mapping_standards)
             display_name == STANDARD_MAPPING_get(str_lower(framework_key))
         IN standards_of_controls(control, display_name,
                                  mapped_controls(mappings, framework_key))
            \o standards_of_frameworks_all(control, Tail(mapping_standards), mappings)

\* utils.py 305-321: the frameworks of one control; a key without a display
\* name is skipped
RECURSIVE standards_of_frameworks(_, _, _)
standards_of_frameworks(control, mapping_standards, mappings) ==
    IF mapping_standards = <<>> THEN <<>>
    ELSE LET framework_key == Head(mapping_standards)
             display_name == STANDARD_MAPPING_get(str_lower(framework_key))
         IN (IF display_name = "" THEN <<>>
             ELSE standards_of_controls(control, display_name,
                                        mapped_controls(mappings, framework_key)))
            \o standards_of_frameworks(control, Tail(mapping_standards), mappings)

\* utils.py 290-321: all_standards
RECURSIVE collect_standards(_, _)
collect_standards(d, data) ==
    IF data = <<>> THEN <<>>
    ELSE LET item == Head(data)
             found == {c \in d.Control : c.short_name = item.shortName}
         IN (IF item.shortName \in {None, ""} \/ found = {} THEN <<>>
             ELSE standards_of_frameworks(First(found), item.mappedStandards,
                                          item.mappings))
            \o collect_standards(d, Tail(data))

StandardKey(t) == <<t.control, t.framework, t.standard_id>>

\* models.py 109-127: unique_together and NOT NULL on a bulk INSERT
FrameworkStandard_integrity_error(table, to_create) ==
    \/ \E i \in DOMAIN to_create :
          \/ to_create[i].standard_id = None
          \/ to_create[i].description = None
          \/ \E r \in table : StandardKey(r) = StandardKey(to_create[i])
    \/ \E i, j \in DOMAIN to_create :
          i # j /\ StandardKey(to_create[i]) = StandardKey(to_create[j])

\* bulk_create: the rows get the next primary keys in list order
RECURSIVE bulk_create(_, _)
bulk_create(table, to_create) ==
    IF to_create = <<>> THEN table
    ELSE bulk_create(table \cup {[id |-> NextId(table)] @@ Head(to_create)},
                     Tail(to_create))

\* every tuple whose row exists put in to_update, changed or not
RECURSIVE partition_batch_always(_, _)
partition_batch_always(acc, batch) ==
    IF batch = <<>> THEN acc
    ELSE LET t == Head(batch)
             key == StandardKey(t)
         IN IF key \in DOMAIN acc.objs
            THEN partition_batch_always(
                     [acc EXCEPT !.objs[key] = [@ EXCEPT !.name = t.name,
                                                         !.description = t.description,
                                                         !.section = t.section],
                                 !.to_update = Append(@, key)],
                     Tail(batch))
            ELSE partition_batch_always([acc EXCEPT !.to_create = Append(@, t)],
                                        Tail(batch))

\* utils.py 342-359: the tuples of a batch against existing_map, whose
\* objects are changed in place; `objs` is existing_map
RECURSIVE partition_batch(_, _)
partition_batch(acc, batch) ==
    IF batch = <<>> THEN acc
    ELSE LET t == Head(batch)
             key == StandardKey(t)
         IN IF key \in DOMAIN acc.objs
            THEN LET obj == acc.objs[key]
                     changed == [obj EXCEPT !.name = t.name,
                                            !.description = t.description,
                                            !.section = t.section]
                 IN partition_batch(
                        [acc EXCEPT !.objs[key] = changed,
                                    !.to_update = IF changed # obj
                                                  THEN Append(@, key) ELSE @],
                        Tail(batch))
            ELSE partition_batch([acc EXCEPT !.to_create = Append(@, t)], Tail(batch))

\* utils.py 326-364: one batch; bulk_update writes the objects of to_update
\* as they are at the end of the batch
standards_batch(st, batch) ==
    LET keys == {StandardKey(batch[i]) : i \in DOMAIN batch}
        existing == {e \in st.table : StandardKey(e) \in keys}
        existing_map == [k \in {StandardKey(e) : e \in existing} |->
                            CHOOSE e \in existing : StandardKey(e) = k]
        part == partition_batch(
                    [objs |-> existing_map, to_create |-> <<>>, to_update |-> <<>>],
                    batch)
        created == bulk_create(st.table, part.to_create)
        updated == {IF StandardKey(r) \in Range(part.to_update)
                    THEN part.objs[StandardKey(r)] ELSE r : r \in created}
        writes == Append(st.batches, [to_create |-> part.to_create,
                                      to_update |-> part.to_update])
    IN IF \/ FrameworkStandard_integrity_error(st.table, part.to_create)
          \/ \E k \in Range(part.to_update) : part.objs[k].description = None
       THEN [st EXCEPT !.batches = writes, !.exc = TRUE]
       ELSE [st EXCEPT !.table = updated, !.batches = writes]

\* utils.py 325-326: range(0, len(all_standards), batch_size)
RECURSIVE standards_batches(_, _)
standards_batches(st, all_standards) ==
    IF st.exc \/ all_standards = <<>> THEN st
    ELSE LET n == IF Len(all_standards) < batch_size
                  THEN Len(all_standards) ELSE batch_size
         IN standards_batches(
                standards_batch(st, SubSeq(all_standards, 1, n)),
                SubSeq(all_standards, n + 1, Len(all_standards)))

\* the function without its transaction: the batches before the one that
\* raised stay written
map_controls_to_standards_autocommit(d, data) ==
    LET all_standards == collect_standards(d, data)
        st == standards_batches(
                  [table |-> d.FrameworkStandard, batches |-> <<>>, exc |-> FALSE],
                  all_standards)
    IN [db |-> [d EXCEPT !.FrameworkStandard = st.table],
        status |-> IF st.exc THEN "raised" ELSE "returned",
        stats |-> [all_standards |-> all_standards, batches |-> st.batches]]

\* utils.py 289-364: the whole function; transaction.atomic() undoes the
\* writes of every batch when one of them raises
map_controls_to_standards(d, data) ==
    LET all_standards == collect_standards(d, data)
        st == standards_batches(
                  [table |-> d.FrameworkStandard, batches |-> <<>>, exc |-> FALSE],
                  all_standards)
    IN [db |-> IF st.exc THEN d ELSE [d EXCEPT !.FrameworkStandard = st.table],
        status |-> IF st.exc THEN "raised" ELSE "returned",
        stats |-> [all_standards |-> all_standards, batches |-> st.batches]]

----------------------------------------------------------------------------
(* pulling_eramba_frameworkds: the Eramba certification sync *)

\* views.py 469-473 with the slug overwritten as well
Certification_overwrite_with_slug(row, item) ==
    [row EXCEPT !.version = item.version, !.description = item.description,
                !.url = item.url, !.regulation_name = item.regulation_name,
                !.slug = eramba_slug(item.name)]

\* views.py 469-473: the four fields assigned on a match, then save(), which
\* derives the slug only when it is empty
Certification_overwrite(row, item) ==
    [row EXCEPT !.version = item.version, !.description = item.description,
                !.url = item.url, !.regulation_name = item.regulation_name,
                !.slug = Certification_save_slug(row.name, row.slug)]

\* views.py 446-476: one regulator record; whatever the try block raises
\* (None has no lower(), IntegrityError of the INSERT) is printed and dropped
frameworks_item(st, item) ==
    LET existing == First({r \in st.db.Certification : r.name = item.name})
        r == Certification_create(st.db,
                 [name |-> item.name, slug |-> eramba_slug(item.name),
                  description |-> item.description, url |-> item.url,
                  version |-> item.version,
                  regulation_name |-> item.regulation_name])
    IN IF item.name = NoneS THEN st
       ELSE IF existing = NoRow
       THEN IF r.exc THEN st
            ELSE [st EXCEPT !.db = r.db,
                            !.new_certifications = Append(@, item.name)]
       ELSE [st EXCEPT !.db.Certification =
                           (@ \ {existing}) \cup {Certification_overwrite(existing, item)},
                       !.updated_certifications = Append(@, item.name)]

RECURSIVE frameworks_items(_, _)
frameworks_items(st, data) ==
    IF data = <<>> THEN st
    ELSE frameworks_items(frameworks_item(st, Head(data)), Tail(data))

\* views.py 427-482: the whole view, given the document the API returned
pulling_eramba_frameworkds(d, data) ==
    LET st == frameworks_items([db |-> d, new_certifications |-> <<>>,
                                updated_certifications |-> <<>>], data)
    IN [db |-> st.db, status |-> "200",
        stats |-> [new_certifications |-> st.new_certifications,
                   updated_certifications |-> st.updated_certifications]]

----------------------------------------------------------------------------
(* ingest_policies_from_eramba: the Eramba policy ingestion *)

RECURSIVE str_lstrip(_)
str_lstrip(s) == IF s # <<>> /\ IsSpaceChar(Head(s)) THEN str_lstrip(Tail(s)) ELSE s

RECURSIVE str_rstrip(_)
str_rstrip(s) ==
    IF s # <<>> /\ IsSpaceChar(s[Len(s)])
    THEN str_rstrip(SubSeq(s, 1, Len(s) - 1))
    ELSE s

\* str.strip()
str_strip(s) == str_rstrip(str_lstrip(s))

\* the text an f-string puts for a value
format_value(v) == IF v = NoneS THEN <<"N", "o", "n", "e">> ELSE v

\* utils.py 207: f"ER-{item.get('id')}"
eramba_policy_id(item) == <<"E", "R", "-">> \o format_value(item.id)

\* utils.py 209: f"{policy_id}-{version}"
eramba_policy_reference(item) ==
    eramba_policy_id(item) \o <<"-">> \o format_value(item.version)

\* utils.py 216-218 with the title overwritten as well
Policy_update_template_and_title(row, title, description) ==
    [row EXCEPT !.policy_template = description, !.title = <<"E", "R">> \o title]

\* utils.py 216-218: policy.policy_template = description; policy.save()
Policy_update_template(row, title, description) ==
    [row EXCEPT !.policy_template = description]

\* utils.py 204-229: one item; strip() of a null index or description, the
\* get() of a title two policies carry and the IntegrityError of the INSERT
\* leave the function
ingest_item(st, item) ==
    LET title == str_strip(item.index)
        found == {p \in st.db.Policy : p.title = title}
        policy == First(found)
        r == Policy_create(st.db,
                 [policy_id |-> eramba_policy_id(item), title |-> title,
                  policy_version |-> item.version,
                  policy_reference |-> eramba_policy_reference(item),
                  policy_template |-> item.description,
                  policy_gathered_from |-> "ER",
                  security_group |-> None, policy_doc |-> None])
    IN IF item.index = NoneS \/ item.description = None
       THEN [st EXCEPT !.exc = TRUE]
       ELSE IF title = <<>> THEN st
       ELSE IF Cardinality(found) > 1 THEN [st EXCEPT !.exc = TRUE]
       ELSE IF found # {}
       THEN [st EXCEPT !.db.Policy =
                           (@ \ {policy})
                           \cup {Policy_update_template(policy, title, item.description)},
                       !.updated = @ + 1]
       ELSE IF r.exc THEN [st EXCEPT !.exc = TRUE]
       ELSE [st EXCEPT !.db = r.db, !.created = @ + 1]

RECURSIVE ingest_items(_, _)
ingest_items(st, data) ==
    IF st.exc \/ data = <<>> THEN st
    ELSE ingest_items(ingest_item(st, Head(data)), Tail(data))

\* utils.py 196-237: the function, given the document the API returned; it
\* runs in autocommit, so what it wrote before it raised stays
ingest_policies_from_eramba(d, data) ==
    LET st == ingest_items([db |-> d, created |-> 0, updated |-> 0,
                            exc |-> FALSE], data)
    IN [db |-> st.db,
        status |-> IF st.exc THEN "raised" ELSE "success",
        stats |-> [created |-> st.created, updated |-> st.updated,
                   total |-> Len(data)]]

----------------------------------------------------------------------------
(* The documents the passes are run on *)

\* the passes of one behaviour, and the records of one input list
MaxPasses == 3
MaxRecords == 2

\* the sequences of 1 .. MaxRecords distinct elements of S
SeqsOf(S) ==
    {q \in UNION {[1..n -> S] : n \in 1..MaxRecords} :
        \A i, j \in DOMAIN q : i # j => q[i] # q[j]}

Txt(a, b) == <<a, b>>

PolicyMapping(shortName, id, title) ==
    [shortName |-> shortName, id |-> id, description |-> "doc", title |-> title]

ControlMapping(shortName, customShortName, name, id) ==
    [shortName |-> shortName, customShortName |-> customShortName, name |-> name,
     description |-> "desc", id |-> id]

Section(referenceId, policies, controls) ==
    [referenceId |-> referenceId, displayIdentifier |-> referenceId,
     title |-> "title", description |-> "text", id |-> "sid",
     programPolicyMapping |-> policies,
     subsections |-> <<[programControlMapping |-> controls]>>]

P1 == PolicyMapping(Txt("P", "1"), Txt("r", "1"), Txt("A", "c"))
P2 == PolicyMapping(Txt("P", "2"), Txt("r", "2"), Txt("B", "k"))
\* the short name of P2 with the policy reference of P1
P3 == PolicyMapping(Txt("P", "2"), Txt("r", "1"), Txt("A", "c"))

C1 == ControlMapping("C1", "k1", "Access", "o1")
C2 == ControlMapping("C2", None, "Backup", "o2")
\* a second short name for the custom short name of C1
C3 == ControlMapping("C3", "k1", "Access", "o3")

\* the section documents, in the order the directory lists them
SectionFiles ==
    << [stem |-> <<"s", "o", "c", "_", "2">>,
        data |-> <<Section("A.1", <<P1>>, <<C1, C2>>)>>],
       [stem |-> <<"n", "i", "s">>,
        data |-> <<Section("A.1", <<P3>>, <<>>), Section("A.2", <<P2>>, <<C3>>)>>],
       [stem |-> <<"i", "s", "o">>,
        data |-> <<Section("A.1", <<P1, P2>>, <<C1>>), Section("A.2", <<>>, <<C2>>)>>] >>

\* the directories of 1 .. MaxRecords of the section documents
Directories ==
    {SelectSeq(SectionFiles, LAMBDA f : f \in S) :
        S \in {T \in SUBSET Range(SectionFiles) :
                  T # {} /\ Cardinality(T) <= MaxRecords}}

CapturedPolicies ==
    { [policy |-> Txt("r", "1"), control_ids |-> <<"o1", "o2">>, security_group |-> "G1"],
      [policy |-> Txt("r", "1"), control_ids |-> <<"o2", "o9">>, security_group |-> None],
      [policy |-> Txt("r", "1"), control_ids |-> <<>>, security_group |-> "G2"] }

SecurityServices ==
    { [id |-> "C1", name |-> "Access", objective |-> "obj",
       security_policies |-> <<[index |-> Txt("A", "c")], [index |-> Txt("E", "p")]>>],
      [id |-> "7", name |-> "Backup", objective |-> "obj",
       security_policies |-> <<[index |-> Txt("E", "p")]>>] }

PackageItem(item_id, policies, services) ==
    [item_id |-> item_id, name |-> "item", description |-> "text", id |-> "9",
     security_policies |-> policies, security_services |-> services]

Regulator(name, items) ==
    [data |-> [name |-> name, description |-> "d", url |-> "u", version |-> "1",
               regulation_name |-> "r",
               compliance_packages |-> <<[compliance_package_items |-> items]>>]]

Regulators ==
    { Regulator(<<"S", "O", "C", " ", "2">>,
                <<PackageItem("A.1", <<[index |-> Txt("A", "c")]>>,
                              <<[name |-> "Access"]>>)>>),
      Regulator(<<"G", "D", "P", "R">>,
                <<PackageItem("G.1", <<[index |-> Txt("E", "p")], [index |-> Txt("Z", "z")]>>,
                              <<[name |-> "Backup"], [name |-> "Nothing"]>>)>>) }

\* the runs of the batcher in one behaviour, and the tuples of one mapping
MaxRuns == 2
MaxTuples == batch_size + 1

StandardControl(controlId, name, description) ==
    [controlId |-> controlId, name |-> name, description |-> description,
     section |-> "x"]

StandardControls ==
    { StandardControl("s1", "n", "d1"), StandardControl("s1", "n", "d2"),
      StandardControl("s2", "", "d1") }

\* tuples of keys of their own that fill a batch up to its last two places
Filler ==
    [i \in 1..(batch_size - 2) |->
        StandardControl("f" \o ToString(i), "n", "d1")]

\* the lists of at most MaxTuples tuples: the last two of the first batch
\* and the first of the second are any of StandardControls
ControlLists ==
    {Filler \o t : t \in UNION {[1..n -> StandardControls] :
                                    n \in 1..(MaxTuples - Len(Filler))}}

KeySOC2 == <<"S", "O", "C", "2">>
KeyCis == <<"c", "i", "s", "_", "v", "8">>
KeyCmmc == <<"c", "m", "m", "c", "_", "l", "1">>
KeyOther == <<"x", "y", "z">>

CapabilityItem(shortName, mappedStandards, mappings) ==
    [shortName |-> shortName, mappedStandards |-> mappedStandards,
     mappings |-> mappings]

\* one control mapped into SOC2 by every list of standards
MainItems == {CapabilityItem("C1", <<KeySOC2>>, KeySOC2 :> l) : l \in ControlLists}

\* a dropped framework next to a kept one, an unknown framework, a control
\* that is not stored, a tuple without description
SideItems ==
    { CapabilityItem("C2", <<KeyCmmc, KeyCis>>,
          (KeyCmmc :> <<StandardControl("s1", "n", "d1")>>)
          @@ (KeyCis :> <<StandardControl("s1", "n", "d1"),
                          StandardControl("s2", "n", "d1")>>)),
      CapabilityItem("C1", <<KeyOther, KeySOC2>>,
          (KeyOther :> <<StandardControl("s2", "n", "d2")>>)),
      CapabilityItem("C9", <<KeySOC2>>,
          (KeySOC2 :> <<StandardControl("s1", "n", "d1")>>)),
      CapabilityItem("C2", <<KeySOC2>>,
          (KeySOC2 :> <<StandardControl("s1", "n", None)>>)) }

\* a first batch of keys of their own, then one key twice in the second
SplitDocument ==
    << CapabilityItem("C2", <<KeySOC2>>,
           KeySOC2 :> (Filler \o <<StandardControl("s1", "n", "d1"),
                                   StandardControl("s2", "n", "d1")>>)),
       CapabilityItem("C1", <<KeySOC2>>,
           KeySOC2 :> <<StandardControl("s1", "n", "d1"),
                        StandardControl("s1", "n", "d2")>>) >>

CapabilityDocuments ==
    {<<m>> : m \in MainItems} \cup {<<s>> : s \in SideItems} \cup {SplitDocument}
    \cup {<<s, m>> : s \in SideItems,
                      m \in {m \in MainItems :
                                Len(m.mappings[KeySOC2]) = Len(Filler) + 1}}

----------------------------------------------------------------------------
(* The passes as actions *)

Prev(name, input) ==
    [same |-> last.op = name /\ last.input = input,
     status |-> last.status, stats |-> last.stats]

Pass(name, input, ret) ==
    /\ passes < MaxPasses
    /\ db' = ret.db
    /\ last' = [op |-> name, input |-> input, status |-> ret.status, stats |-> ret.stats]
    /\ before' = db
    /\ prev' = Prev(name, input)
    /\ passes' = passes + 1
    /\ UNCHANGED <<futures, collected, threads>>

PopulateDatabase ==
    \E files \in Directories :
        Pass("populate_database", files, populate_database(db, files))

MapControlsWithPolicy ==
    \E data \in SeqsOf(CapturedPolicies) :
        Pass("map_controls_with_policy", data, map_controls_with_policy(db, data))

GetErambaControls ==
    \E data \in SeqsOf(SecurityServices) :
        Pass("get_eramba_controls", data, get_eramba_controls(db, data))

GetErambaClauses ==
    \E clauses \in SeqsOf(Regulators) :
        Pass("get_eramba_clauses", clauses, get_eramba_clauses(db, clauses))

Init ==
    /\ db = EmptyDb
    /\ last = [op |-> "none", input |-> <<>>, status |-> "none", stats |-> <<>>]
    /\ before = EmptyDb
    /\ prev = [same |-> FALSE, status |-> "none", stats |-> <<>>]
    /\ passes = 0
    /\ futures = <<>> /\ collected = <<>> /\ threads = <<>>

Next ==
    \/ PopulateDatabase
    \/ MapControlsWithPolicy
    \/ GetErambaControls
    \/ GetErambaClauses

Spec == Init /\ [][Next]_vars

----------------------------------------------------------------------------
(* The standard-mapping batcher on a database that holds controls *)

MapControlsToStandards ==
    \E data \in CapabilityDocuments :
        /\ passes < MaxRuns
        /\ LET ret == map_controls_to_standards(db, data)
           IN /\ db' = ret.db
              /\ last' = [op |-> "map_controls_to_standards", input |-> data,
                          status |-> ret.status, stats |-> ret.stats]
        /\ before' = db
        /\ prev' = Prev("map_controls_to_standards", data)
        /\ passes' = passes + 1
        /\ UNCHANGED <<futures, collected, threads>>

\* the database after the section-based pass has stored the controls C1, C2
InitStd ==
    /\ db = populate_database(EmptyDb,
                <<[stem |-> <<"s", "o", "c", "_", "2">>,
                   data |-> <<Section("A.1", <<P1>>, <<C1, C2>>)>>]>>).db
    /\ last = [op |-> "none", input |-> <<>>, status |-> "none", stats |-> <<>>]
    /\ before = db
    /\ prev = [same |-> FALSE, status |-> "none", stats |-> <<>>]
    /\ passes = 0
    /\ futures = <<>> /\ collected = <<>> /\ threads = <<>>

NextStd == MapControlsToStandards

SpecStd == InitStd /\ [][NextStd]_vars

----------------------------------------------------------------------------
(* All seven passes, each on one document of one or two records *)

\* a section document whose records lack their key fields: get(key, "")
\* reads a missing referenceId or shortName as the empty string
KeylessFile ==
    [stem |-> <<"p", "c", "i">>,
     data |-> <<Section("", <<PolicyMapping(<<>>, Txt("r", "9"), Txt("N", "k"))>>,
                        <<ControlMapping("", None, "Nokey", "o8")>>),
                Section("B.1", <<>>, <<>>)>>]

SyncDirectories == {<<f>> : f \in Range(SectionFiles) \cup {KeylessFile}}

RegulatorRecord(name, version) ==
    [name |-> name, description |-> "d", url |-> "u", version |-> version,
     regulation_name |-> "r"]

\* the regulator lists: a name the section-based pass derives from soc_2.json,
\* the same with another version, a name of the same slug, a name twice
\* that slugify() and lower().replace() turn into different slugs
FrameworkDocuments ==
    { <<RegulatorRecord(<<"S", "O", "C", " ", "2">>, "1")>>,
      <<RegulatorRecord(<<"S", "O", "C", " ", "2">>, "2")>>,
      <<RegulatorRecord(<<"S", "o", "c", " ", "2">>, "1"),
        RegulatorRecord(<<"I", "S", "O">>, "1")>>,
      <<RegulatorRecord(<<"N", "I", "S", ":", "2">>, "1"),
        RegulatorRecord(<<"N", "I", "S", ":", "2">>, None)>> }

PolicyItem(index, id, version, description) ==
    [index |-> index, id |-> id, version |-> version, description |-> description]

\* the policy lists: a title in spaces, the title with another description,
\* an item without title before an item of the same id, an item without id,
\* two titles under one id
PolicyDocuments ==
    { <<PolicyItem(<<" ", "A", "c", " ">>, <<"7">>, <<"2">>, "t1")>>,
      <<PolicyItem(Txt("A", "c"), <<"7">>, <<"2">>, "t2")>>,
      <<PolicyItem(<<>>, <<"8">>, <<"1">>, "t1"),
        PolicyItem(Txt("B", "k"), <<"7">>, <<"2">>, "t1")>>,
      <<PolicyItem(Txt("N", "k"), NoneS, <<"1">>, "t1")>>,
      <<PolicyItem(Txt("C", "k"), <<"9">>, <<"1">>, "t1"),
        PolicyItem(Txt("D", "k"), <<"9">>, <<"1">>, "t1")>> }

\* the clause entries: those of Regulators and one whose first item lacks
\* its item_id
ClauseDocuments ==
    {<<r>> : r \in Regulators}
    \cup {<<Regulator(<<"N", "I", "S", ":", "2">>,
                      <<PackageItem(None, <<>>, <<>>),
                        PackageItem("N.1", <<[index |-> <<>>]>>, <<>>)>>)>>}

\* a security service whose objective is null
NullObjective ==
    [id |-> "8", name |-> "Audit", objective |-> None, security_policies |-> <<>>]

\* the security-service lists: each service alone, and a service before
\* the one without objective
ServiceDocuments ==
    {<<s>> : s \in SecurityServices}
    \cup {<<s, NullObjective>> : s \in {t \in SecurityServices : t.id = "7"}}

CapturedDocuments == {<<c>> : c \in CapturedPolicies}

StandardDocuments == {<<s>> : s \in SideItems}

SyncPopulateDatabase ==
    \E files \in SyncDirectories :
        Pass("populate_database", files, populate_database(db, files))

PullingErambaFrameworkds ==
    \E data \in FrameworkDocuments :
        Pass("pulling_eramba_frameworkds", data, pulling_eramba_frameworkds(db, data))

IngestPoliciesFromEramba ==
    \E data \in PolicyDocuments :
        Pass("ingest_policies_from_eramba", data, ingest_policies_from_eramba(db, data))

SyncGetErambaClauses ==
    \E clauses \in ClauseDocuments :
        Pass("get_eramba_clauses", clauses, get_eramba_clauses(db, clauses))

SyncGetErambaControls ==
    \E data \in ServiceDocuments :
        Pass("get_eramba_controls", data, get_eramba_controls(db, data))

SyncMapControlsWithPolicy ==
    \E data \in CapturedDocuments :
        Pass("map_controls_with_policy", data, map_controls_with_policy(db, data))

SyncMapControlsToStandards ==
    \E data \in StandardDocuments :
        Pass("map_controls_to_standards", data, map_controls_to_standards(db, data))

NextSync ==
    \/ SyncPopulateDatabase
    \/ PullingErambaFrameworkds
    \/ IngestPoliciesFromEramba
    \/ SyncGetErambaClauses
    \/ SyncGetErambaControls
    \/ SyncMapControlsWithPolicy
    \/ SyncMapControlsToStandards

SpecSync == Init /\ [][NextSync]_vars

----------------------------------------------------------------------------
(* Properties of the section-based, TrustCloud mapping and Eramba passes *)

Pairs(table, a, b) == {<<e[a], e[b]>> : e \in table}

PopulateCountersZero(stats) ==
    /\ stats.certifications = 0 /\ stats.clauses = 0 /\ stats.policies = 0
    /\ stats.controls = 0 /\ stats.policy_clause_links = 0
    /\ stats.control_clause_links = 0

ControlRecords(files) ==
    UNION {UNION {UNION {
        {[stem |-> files[f].stem, referenceId |-> files[f].data[s].referenceId,
          record |-> files[f].data[s].subsections[u].programControlMapping[c]] :
            c \in DOMAIN files[f].data[s].subsections[u].programControlMapping} :
        u \in DOMAIN files[f].data[s].subsections} :
        s \in DOMAIN files[f].data} :
        f \in DOMAIN files}

\* the clause of a certification name and reference id is linked to control c
ClauseLinksControl(d, name, reference_id, c) ==
    \E cert \in d.Certification, clause \in d.Clause :
        /\ cert.name = name
        /\ clause.certification = cert.id /\ clause.reference_id = reference_id
        /\ Linked(d.ControlClause, "clause", "control", clause.id, c.id)

\* C2: the short names of the Control rows are pairwise distinct, and a
\* record of the section-based pass or of the Eramba control pass whose short
\* name a Control row carries resolves to that row: the row stays as it was,
\* the record's links are made to it, and the pass creates one Control for
\* each short name that was not stored and no other.
C2_ControlShortNameUnique ==
    /\ \A c1, c2 \in db.Control : c1.short_name = c2.short_name => c1 = c2
    /\ last.op \in {"populate_database", "get_eramba_controls"} =>
          before.Control \subseteq db.Control
    /\ (last.op = "get_eramba_controls" /\ last.status = "success") =>
          /\ \A i \in DOMAIN last.input : \A c \in before.Control :
                c.short_name = last.input[i].id =>
                   \A j \in DOMAIN last.input[i].security_policies :
                      \E p \in db.Policy :
                         /\ p.title = last.input[i].security_policies[j].index
                         /\ Linked(db.PolicyControl, "control", "policy", c.id, p.id)
          /\ last.stats.controls_processed =
                Cardinality({last.input[i].id : i \in DOMAIN last.input}
                            \ {c.short_name : c \in before.Control})
          /\ Cardinality(db.Control) =
                Cardinality(before.Control) + last.stats.controls_processed
    /\ last.op = "populate_database" =>
          /\ Cardinality(db.Control) = Cardinality(before.Control) + last.stats.controls
          /\ last.stats.errors = <<>> =>
                \A r \in ControlRecords(last.input) : \A c \in before.Control :
                   c.short_name = r.record.shortName =>
                      ClauseLinksControl(db, cert_name_of_stem(r.stem), r.referenceId, c)

\* an Eramba control pass met the short name of a control that the
\* section-based pass had stored, and linked that row to a policy it created
C2_Witness ==
    /\ last.op = "get_eramba_controls" /\ last.status = "success"
    /\ \E i \in DOMAIN last.input : \E c \in before.Control :
          /\ c.short_name = last.input[i].id
          /\ c.original_id # None
          /\ \E p \in db.Policy \ before.Policy :
                Linked(db.PolicyControl, "control", "policy", c.id, p.id)
    /\ last.stats.controls_processed > 0

\* C3, as claimed: an item of map_controls_with_policy whose policy exists
\* and whose matched control set is empty leaves the policy with no linked
\* control.
C3_EmptySetUnlinks ==
    last.op = "map_controls_with_policy" =>
        \A i \in DOMAIN last.stats.trace :
            last.stats.trace[i].matched = {} => last.stats.trace[i].linked_after = {}

\* C4: an item of map_controls_with_policy whose policy exists and whose
\* matched control set M is not empty leaves the policy linked to exactly the
\* controls of M, each by one edge.
C4_SetReplacesEdges ==
    last.op = "map_controls_with_policy" =>
        \A i \in DOMAIN last.stats.trace :
            last.stats.trace[i].matched # {} =>
                /\ last.stats.trace[i].linked_after = last.stats.trace[i].matched
                /\ last.stats.trace[i].edges_after =
                       Cardinality(last.stats.trace[i].matched)

\* the third pass replaced the controls of a policy and removed an edge to a
\* control outside M; an Eramba policy is stored, so the second pass was the
\* Eramba control pass, which had added that edge
C4_Witness ==
    /\ last.op = "map_controls_with_policy" /\ passes = 3
    /\ \E p \in db.Policy : p.policy_gathered_from = "ER"
    /\ \E i \in DOMAIN last.stats.trace :
          /\ last.stats.trace[i].matched # {}
          /\ last.stats.trace[i].linked_before \ last.stats.trace[i].matched # {}
          /\ last.stats.trace[i].matched \ last.stats.trace[i].linked_before # {}

EdgeTables == {"PolicyClause", "ControlClause", "PolicyControl"}

EdgeEnds(t) == IF t = "PolicyClause" THEN <<"policy", "clause">>
               ELSE IF t = "ControlClause" THEN <<"control", "clause">>
               ELSE <<"policy", "control">>

EdgePairs(d, t) == Pairs(d[t], EdgeEnds(t)[1], EdgeEnds(t)[2])

\* C5: every Clause-Policy, Clause-Control and Policy-Control pair is stored
\* as at most one edge, and a pass that links a pair that was linked before
\* it leaves the edge of the pair as it was (a map_controls_with_policy pass
\* may remove the edge for one item and insert it again for a later one, so
\* there the pair is only required to be stored once).
C5_EdgesUnique ==
    \A t \in EdgeTables :
        /\ \A e1, e2 \in db[t] :
              (e1[EdgeEnds(t)[1]] = e2[EdgeEnds(t)[1]]
               /\ e1[EdgeEnds(t)[2]] = e2[EdgeEnds(t)[2]]) => e1 = e2
        /\ last.op # "map_controls_with_policy" =>
              \A e \in before[t] :
                  <<e[EdgeEnds(t)[1]], e[EdgeEnds(t)[2]]>> \in EdgePairs(db, t)
                      => e \in db[t]

\* the section-based pass was run twice on documents whose pairs the first
\* run linked; the second run links them again, and all three tables hold
\* edges
C5_Witness ==
    /\ last.op = "populate_database" /\ prev.same
    /\ prev.stats.policy_clause_links > 0
    /\ prev.stats.control_clause_links > 0
    /\ \A t \in EdgeTables : db[t] # {} /\ db[t] = before[t]

\* C6, as claimed: the link counters of populate_database, get_eramba_clauses
\* and get_eramba_controls count the edges the pass inserted.
C6_CountersCountNewEdges ==
    /\ last.op = "populate_database" =>
          /\ last.stats.policy_clause_links =
                Cardinality(db.PolicyClause) - Cardinality(before.PolicyClause)
          /\ last.stats.control_clause_links =
                Cardinality(db.ControlClause) - Cardinality(before.ControlClause)
    /\ last.op = "get_eramba_clauses" =>
          /\ last.stats.policies_mapped =
                Cardinality(db.PolicyClause) - Cardinality(before.PolicyClause)
          /\ last.stats.controls_mapped =
                Cardinality(db.ControlClause) - Cardinality(before.ControlClause)
    /\ last.op = "get_eramba_controls" =>
          last.stats.policies_linked_to_controls =
              Cardinality(db.PolicyControl) - Cardinality(before.PolicyControl)

\* the policies map_controls_with_policy resolved
TracePolicies(stats) == {stats.trace[i].policy : i \in DOMAIN stats.trace}

\* C7: a step removes no Clause-Policy and no Clause-Control edge, and it
\* removes a Policy-Control edge only when it is a map_controls_with_policy
\* step that replaced the controls of the policy of that edge.
C7_EdgesAdditive ==
    [][/\ EdgePairs(db, "PolicyClause") \subseteq EdgePairs(db', "PolicyClause")
       /\ EdgePairs(db, "ControlClause") \subseteq EdgePairs(db', "ControlClause")
       /\ \A e \in EdgePairs(db, "PolicyControl") \ EdgePairs(db', "PolicyControl") :
             /\ last'.op = "map_controls_with_policy"
             /\ e[1] \in TracePolicies(last'.stats)]_vars

\* a pass other than map_controls_with_policy ran on a database holding
\* edges of the three kinds and added a Policy-Control edge
C7_Witness ==
    /\ last.op = "get_eramba_controls"
    /\ \A t \in EdgeTables : before[t] # {}
    /\ EdgePairs(before, "PolicyControl") # EdgePairs(db, "PolicyControl")

----------------------------------------------------------------------------
(* Properties of the standard-mapping batcher *)

DisplayNames == {kv[2] : kv \in STANDARD_MAPPING_ITEMS} \ {""}

\* the raw framework keys of the items of a capability document
RawKeys(data) ==
    UNION {Range(data[i].mappedStandards) : i \in DOMAIN data}

\* C8: no FrameworkStandard row has an empty framework name: every stored
\* framework is a non-empty value of STANDARD_MAPPING, a run collects no
\* tuple under an empty name, and every row a run creates carries the
\* display name of a raw key of its input, compared in lower case.
C8_NoEmptyFramework ==
    /\ \A r \in db.FrameworkStandard : r.framework \in DisplayNames
    /\ last.op = "map_controls_to_standards" =>
          /\ \A i \in DOMAIN last.stats.all_standards :
                last.stats.all_standards[i].framework \in DisplayNames
          /\ \A r \in db.FrameworkStandard \ before.FrameworkStandard :
                \E k \in RawKeys(last.input) :
                    STANDARD_MAPPING_get(str_lower(k)) = r.framework

\* a run whose input maps a stored control into cmmc_l1 and into a kept
\* framework returned, and it created rows
C8_Witness ==
    /\ last.op = "map_controls_to_standards" /\ last.status = "returned"
    /\ \E i \in DOMAIN last.input :
          /\ KeyCmmc \in Range(last.input[i].mappedStandards)
          /\ KeyCmmc \in DOMAIN last.input[i].mappings
          /\ \E c \in db.Control : c.short_name = last.input[i].shortName
    /\ db.FrameworkStandard # before.FrameworkStandard

NoWrites(batches) ==
    \A b \in DOMAIN batches :
        batches[b].to_create = <<>> /\ batches[b].to_update = <<>>

KeysDistinct(all_standards) ==
    \A i, j \in DOMAIN all_standards :
        i # j => StandardKey(all_standards[i]) # StandardKey(all_standards[j])

WellFormed(all_standards) ==
    \A i \in DOMAIN all_standards :
        all_standards[i].standard_id # None /\ all_standards[i].description # None

BatchOf(i) == (i - 1) \div batch_size

\* the last collected tuple with the key of the i-th
LastWithKey(all_standards, i) ==
    all_standards[CHOOSE j \in DOMAIN all_standards :
        /\ StandardKey(all_standards[j]) = StandardKey(all_standards[i])
        /\ \A k \in DOMAIN all_standards :
              StandardKey(all_standards[k]) = StandardKey(all_standards[i]) => k <= j]

\* one row is stored for the key of tuple t, with the fields of tuple u
OneRowWith(d, t, u) ==
    LET rows == {r \in d.FrameworkStandard : StandardKey(r) = StandardKey(t)}
    IN /\ Cardinality(rows) = 1
       /\ \A r \in rows : /\ r.name = u.name
                          /\ r.description = u.description
                          /\ r.section = u.section

\* C10, as claimed: when tuples with one key and differing descriptions
\* fall into different batches of a run, the run completes with exactly one
\* row for the key, holding the fields of the last tuple with that key.
C10_SplitKeyOneRowLastWins ==
    last.op = "map_controls_to_standards" =>
        \A i, j \in DOMAIN last.stats.all_standards :
            LET t == last.stats.all_standards IN
            (/\ StandardKey(t[i]) = StandardKey(t[j])
             /\ t[i].description # t[j].description
             /\ BatchOf(i) # BatchOf(j)) =>
                /\ last.status = "returned"
                /\ OneRowWith(db, t[i], LastWithKey(t, i))

----------------------------------------------------------------------------
(* Properties of the seven passes run in any order *)

\* the titles of the items of a policy list, stripped, the empty one left out
IngestTitles(data) == {str_strip(data[i].index) : i \in DOMAIN data} \ {<<>>}

SameButTemplate(p, q) == [p EXCEPT !.policy_template = q.policy_template] = q

\* the items of a policy list that have an id, a version and a title that
\* no row carried and no item before them has
NewTitleItems(data) ==
    {i \in DOMAIN data :
        /\ str_strip(data[i].index) # <<>>
        /\ data[i].id # NoneS /\ data[i].version # NoneS
        /\ \A q \in before.Policy : q.title # str_strip(data[i].index)
        /\ \A j \in 1..(i - 1) : str_strip(data[j].index) # str_strip(data[i].index)}

StoredAsEramba(item) ==
    \E p \in db.Policy :
        /\ p.title = str_strip(item.index)
        /\ p.policy_id = <<"E", "R", "-">> \o item.id
        /\ p.policy_reference = <<"E", "R", "-">> \o item.id \o <<"-">> \o item.version

\* every row that was there is still there and differs at most in
\* policy_template, and only when an item has its title; a row that was not
\* there carries the title of an item, which no row carried; no other table
\* and no edge changed
IngestFrame ==
    /\ \A q \in before.Policy : \E p \in db.Policy :
          /\ p.id = q.id /\ SameButTemplate(p, q)
          /\ p # q => q.title \in IngestTitles(last.input)
    /\ \A p \in db.Policy :
          (\A q \in before.Policy : q.id # p.id) =>
              /\ \A q \in before.Policy : q.title # p.title
              /\ \E i \in DOMAIN last.input :
                    /\ p.title = str_strip(last.input[i].index)
                    /\ p.policy_gathered_from = "ER"
                    /\ p.policy_version = last.input[i].version
    /\ [db EXCEPT !.Policy = {}] = [before EXCEPT !.Policy = {}]

LastNamed(data, name) ==
    CHOOSE i \in DOMAIN data :
        /\ data[i].name = name
        /\ \A j \in DOMAIN data : data[j].name = name => j <= i

\* C12: no pass changes the name or the slug of a Certification, and after
\* pulling_eramba_frameworkds a Certification that was there and whose name
\* a record has carries the version, description, url and regulation_name
\* of the last such record.
C12_CertificationResync ==
    /\ \A q \in before.Certification : \E p \in db.Certification :
          p.id = q.id /\ p.name = q.name /\ p.slug = q.slug
    /\ last.op = "pulling_eramba_frameworkds" =>
          \A q \in before.Certification :
              (\E i \in DOMAIN last.input : last.input[i].name = q.name) =>
                  \E p \in db.Certification :
                      LET item == last.input[LastNamed(last.input, q.name)]
                      IN /\ p.id = q.id
                         /\ p.version = item.version
                         /\ p.description = item.description
                         /\ p.url = item.url
                         /\ p.regulation_name = item.regulation_name

\* the sync met a Certification whose slug slugify() had derived and gave it
\* another version
C12_Witness ==
    /\ last.op = "pulling_eramba_frameworkds"
    /\ \E q \in before.Certification, p \in db.Certification :
          /\ p.id = q.id /\ p.version # q.version
          /\ q.slug = slugify(q.name) /\ q.slug # eramba_slug(q.name)

\* C13: every Clause row and every Control row a pass finds is there after
\* the pass with all its fields as they were.
C13_StrictGetOrCreate ==
    /\ before.Clause \subseteq db.Clause
    /\ before.Control \subseteq db.Control

\* the Eramba clause pass met the clause of a section document, which has
\* another title than its item, with a control of a section document stored
C13_Witness ==
    /\ last.op = "get_eramba_clauses" /\ last.stats.clauses_updated > 0
    /\ \E q \in before.Clause, c \in before.Certification :
          /\ q.certification = c.id /\ c.name = last.input[1].data.name
          /\ \E p \in DOMAIN last.input[1].data.compliance_packages :
                \E i \in DOMAIN last.input[1].data.compliance_packages[p].compliance_package_items :
                    LET item == last.input[1].data.compliance_packages[p].compliance_package_items[i]
                    IN item.item_id = q.reference_id /\ item.name # q.title
    /\ \E k \in db.Control : k.custom_short_name # None

ErambaPasses ==
    {"pulling_eramba_frameworkds", "ingest_policies_from_eramba",
     "get_eramba_controls", "get_eramba_clauses"}

\* the entities a pass reports as created and as updated
ReportedCreated(op, stats) ==
    IF op = "pulling_eramba_frameworkds" THEN Len(stats.new_certifications)
    ELSE IF op = "ingest_policies_from_eramba" THEN stats.created
    ELSE IF op = "get_eramba_controls"
    THEN stats.controls_processed + stats.policies_processed
    ELSE IF op = "get_eramba_clauses" THEN stats.clauses_created
    ELSE 0

ReportedUpdated(op, stats) ==
    IF op = "pulling_eramba_frameworkds" THEN Len(stats.updated_certifications)
    ELSE IF op = "ingest_policies_from_eramba" THEN stats.updated
    ELSE IF op = "get_eramba_clauses" THEN stats.clauses_updated
    ELSE 0

\* C14, as claimed: an Eramba pass run again on the document of the pass
\* before it leaves every table as it was and reports no entity as created
\* and none as updated.
C14_SecondErambaPassWritesNothing ==
    (last.op \in ErambaPasses /\ prev.same) =>
        /\ db = before
        /\ ReportedCreated(last.op, last.stats) = 0
        /\ ReportedUpdated(last.op, last.stats) = 0

\* C15: no two Policy rows share a policy_id or a policy_reference, and no
\* two Certification rows share a name or a slug.
C15_PolicyAndCertificationKeysUnique ==
    /\ \A p, q \in db.Policy :
          (p.policy_id = q.policy_id \/ p.policy_reference = q.policy_reference)
              => p = q
    /\ \A c, e \in db.Certification :
          (c.name = e.name \/ c.slug = e.slug) => c = e

\* the certification sync met a name whose slug a certification of the
\* section-based pass holds and created none for it, next to one it did
\* create; policies of both sources are stored
C15_Witness ==
    /\ last.op = "pulling_eramba_frameworkds"
    /\ last.stats.new_certifications # <<>>
    /\ \E i \in DOMAIN last.input : \E c \in db.Certification :
          /\ c.slug = eramba_slug(last.input[i].name)
          /\ c.slug = slugify(c.name)
          /\ c.name # last.input[i].name
          /\ \A e \in db.Certification : e.name # last.input[i].name
    /\ \E p, q \in db.Policy :
          p.policy_gathered_from = "TC" /\ q.policy_gathered_from = "ER"


\* the policy mapping records of section documents, each with its file stem
\* and the reference id of its section
PolicyRecords(files) ==
    UNION {UNION {
        {[stem |-> files[f].stem, referenceId |-> files[f].data[s].referenceId,
          record |-> files[f].data[s].programPolicyMapping[m]] :
            m \in DOMAIN files[f].data[s].programPolicyMapping} :
        s \in DOMAIN files[f].data} :
        f \in DOMAIN files}

\* the clause of a certification name and reference id is linked to policy p
ClauseLinksPolicy(d, name, reference_id, p) ==
    \E cert \in d.Certification, clause \in d.Clause :
        /\ cert.name = name
        /\ clause.certification = cert.id /\ clause.reference_id = reference_id
        /\ Linked(d.PolicyClause, "clause", "policy", clause.id, p.id)

\* C16: in a section-based pass that reported no error, a policy mapping
\* record whose id is the policy_reference of a stored Policy is linked to
\* that Policy and no Policy is created for it, and a record whose id no
\* stored Policy has gets a Policy with that policy_reference; in the Eramba
\* policy ingestion that returned, a title that a stored Policy has gets no
\* further Policy, and a title that none has gets one.
C16_PolicyResolvedBySourceKey ==
    /\ (last.op = "populate_database" /\ last.stats.errors = <<>>) =>
          \A r \in PolicyRecords(last.input) :
              /\ \A q \in before.Policy :
                    q.policy_reference = r.record.id =>
                        /\ q \in db.Policy
                        /\ ClauseLinksPolicy(db, cert_name_of_stem(r.stem),
                                             r.referenceId, q)
              /\ \E p \in db.Policy : p.policy_reference = r.record.id
    /\ (last.op = "ingest_policies_from_eramba" /\ last.status = "success") =>
          \A t \in IngestTitles(last.input) :
              /\ (\E q \in before.Policy : q.title = t) =>
                    {p \in db.Policy : p.title = t}
                        = {p \in db.Policy : \E q \in before.Policy :
                                                 q.id = p.id /\ q.title = t}
              /\ \E p \in db.Policy : p.title = t


\* the certification of a section document is stored with a clause of the
\* reference id
ClauseStored(d, name, reference_id) ==
    \E cert \in d.Certification, clause \in d.Clause :
        /\ cert.name = name
        /\ clause.certification = cert.id /\ clause.reference_id = reference_id

\* C17: the section-based pass returns a summary that is not an error, the
\* files it lists in errors are files of its input, and a record that raised
\* stops neither its file nor the later ones: every section of every file
\* whose certification is stored has its clause.
C17_PopulateContinuesAfterRecordError ==
    last.op = "populate_database" =>
        /\ last.status \in {"success", "partial"}
        /\ \A e \in DOMAIN last.stats.errors :
              \E f \in DOMAIN last.input : last.input[f].stem = last.stats.errors[e]
        /\ \A f \in DOMAIN last.input :
              (\E cert \in db.Certification :
                  cert.name = cert_name_of_stem(last.input[f].stem)) =>
                  \A s \in DOMAIN last.input[f].data :
                      ClauseStored(db, cert_name_of_stem(last.input[f].stem),
                                   last.input[f].data[s].referenceId)


\* the rows a pass added to a table
Added(t) == {r \in db[t] : \A q \in before[t] : q.id # r.id}

\* C18: a record without its key field creates nothing: the section-based
\* pass adds no Clause of an empty reference id, no Policy of an empty
\* policy_id and no Control of an empty short name; the Eramba clause pass
\* adds no Clause for an item without item_id and records a warning for it;
\* the Eramba policy ingestion adds no Policy for an item without id.
C18_KeylessRecordSkipped ==
    /\ last.op = "populate_database" =>
          /\ \A c \in Added("Clause") : c.reference_id # ""
          /\ \A p \in Added("Policy") : p.policy_id # <<>>
          /\ \A c \in Added("Control") : c.short_name # ""
    /\ last.op = "get_eramba_clauses" =>
          \A e \in DOMAIN last.input :
          \A k \in DOMAIN last.input[e].data.compliance_packages :
          \A i \in DOMAIN last.input[e].data.compliance_packages[k].compliance_package_items :
              last.input[e].data.compliance_packages[k].compliance_package_items[i].item_id = None
                  => /\ \A c \in Added("Clause") : c.reference_id # None
                     /\ \E w \in DOMAIN last.stats.warnings :
                           last.stats.warnings[w] = "skip_item"
    /\ last.op = "ingest_policies_from_eramba" =>
          \A i \in DOMAIN last.input :
              last.input[i].id = NoneS =>
                  \A p \in Added("Policy") : p.title # str_strip(last.input[i].index)


\* C19: a uniqueness violation costs the one record that made it and the
\* pass returns its summary. The Eramba policy ingestion, given items with
\* index and description while no two stored policies share a title of the
\* list (so that nothing but the INSERT can raise), returns; the Eramba
\* control pass returns; after the section-based pass every control mapping
\* record of its files has a Control of its short name, or a Control holds
\* its custom short name.
C19_UniquenessViolationSkipsOneRecord ==
    /\ ( /\ last.op = "ingest_policies_from_eramba"
         /\ \A i \in DOMAIN last.input :
               last.input[i].index # NoneS /\ last.input[i].description # None
         /\ \A p, q \in before.Policy :
               (p.title = q.title /\ p.title \in IngestTitles(last.input)) => p = q )
          => last.status = "success"
    /\ last.op = "get_eramba_controls" => last.status = "success"
    /\ last.op = "populate_database" =>
          \A r \in ControlRecords(last.input) :
              \E c \in db.Control :
                  \/ c.short_name = r.record.shortName
                  \/ /\ r.record.customShortName # None
                     /\ c.custom_short_name = r.record.customShortName


\* the status a pass returns when everything succeeded
FullSuccess ==
    {"success", "200", "returned"}

\* C20: a returned status of full success means that no record was skipped:
\* the section-based pass reported no error, the Eramba clause pass recorded
\* no skipped entry and no skipped item, every item of the Eramba policy
\* ingestion has a title, every regulator of the certification sync and
\* every security service of the Eramba control pass has its row.
C20_SuccessMeansNothingSkipped ==
    last.status \in FullSuccess =>
        /\ last.op = "populate_database" => last.stats.errors = <<>>
        /\ last.op = "get_eramba_clauses" =>
              \A w \in DOMAIN last.stats.warnings :
                  last.stats.warnings[w] \notin {"skip_entry", "skip_item"}
        /\ last.op = "ingest_policies_from_eramba" =>
              \A i \in DOMAIN last.input : str_strip(last.input[i].index) # <<>>
        /\ last.op = "pulling_eramba_frameworkds" =>
              \A i \in DOMAIN last.input :
                  \E c \in db.Certification : c.name = last.input[i].name
        /\ last.op = "get_eramba_controls" =>
              \A i \in DOMAIN last.input :
                  \E c \in db.Control : c.short_name = last.input[i].id


----------------------------------------------------------------------------
(* Properties of titles, sources and references *)

\* C25: at most one Policy row carries a given title, so that the lookups
\* by title find one row or none: the Eramba policy ingestion, given items
\* with index and description, ends by raising only when an INSERT is
\* refused, that is, with some item of a new title.
C25_TitleResolutionUnambiguous ==
    /\ \A p, q \in db.Policy : p.title = q.title => p = q
    /\ ( /\ last.op = "ingest_policies_from_eramba"
         /\ last.status = "raised"
         /\ \A i \in DOMAIN last.input :
               last.input[i].index # NoneS /\ last.input[i].description # None )
          => \E i \in DOMAIN last.input :
                \A q \in before.Policy : q.title # str_strip(last.input[i].index)


\* the compliance package items of fetched regulator documents, each with
\* the name of its regulator
PackageItems(clauses) ==
    UNION {UNION {
        {[name |-> clauses[e].data.name,
          item |-> clauses[e].data.compliance_packages[k].compliance_package_items[i]] :
            i \in DOMAIN clauses[e].data.compliance_packages[k].compliance_package_items} :
        k \in DOMAIN clauses[e].data.compliance_packages} :
        e \in DOMAIN clauses}

\* the item has its clause and no reference of it matches several rows
Resolvable(x) ==
    /\ ClauseStored(db, x.name, x.item.item_id)
    /\ \A i \in DOMAIN x.item.security_policies :
          Cardinality({p \in before.Policy :
                          p.title = x.item.security_policies[i].index}) <= 1
    /\ \A i \in DOMAIN x.item.security_services :
          Cardinality({c \in before.Control :
                          c.name = x.item.security_services[i].name}) <= 1

\* C23: the Eramba clause pass leaves the Policy and Control rows as they
\* were. For an item that has its clause and whose references match at most
\* one row each, a title or name that matches none gets no edge and a
\* warning, the item is not in the error list, and the references that
\* match are linked to the clause.
C23_UnmatchedReferenceWarns ==
    last.op = "get_eramba_clauses" =>
        /\ db.Policy = before.Policy /\ db.Control = before.Control
        /\ \A x \in PackageItems(last.input) :
              Resolvable(x) =>
                  /\ \A e \in DOMAIN last.stats.errors :
                        last.stats.errors[e] # x.item.item_id
                  /\ \A i \in DOMAIN x.item.security_policies :
                        LET t == x.item.security_policies[i].index
                        IN IF \E p \in before.Policy : p.title = t
                           THEN \E p \in db.Policy :
                                   p.title = t /\ ClauseLinksPolicy(db, x.name,
                                                      x.item.item_id, p)
                           ELSE t \notin {NoneS, <<>>} =>
                                   \E w \in DOMAIN last.stats.warnings :
                                       last.stats.warnings[w] = "policy_not_found"
                  /\ \A i \in DOMAIN x.item.security_services :
                        LET n == x.item.security_services[i].name
                        IN IF \E c \in before.Control : c.name = n
                           THEN \E c \in db.Control :
                                   c.name = n /\ ClauseLinksControl(db, x.name,
                                                     x.item.item_id, c)
                           ELSE n \notin {None, ""} =>
                                   \E w \in DOMAIN last.stats.warnings :
                                       last.stats.warnings[w] = "control_not_found"
        /\ Cardinality(db.PolicyClause) - Cardinality(before.PolicyClause)
              <= last.stats.policies_mapped
        /\ Cardinality(db.ControlClause) - Cardinality(before.ControlClause)
              <= last.stats.controls_mapped

\* a clause pass met a policy title that no Policy carries, warned, and then
\* linked a security service of the same item to its clause
C23_Witness ==
    /\ last.op = "get_eramba_clauses" /\ last.stats.errors = <<>>
    /\ \E w \in DOMAIN last.stats.warnings : last.stats.warnings[w] = "policy_not_found"
    /\ last.stats.controls_mapped > 0
    /\ db.ControlClause # before.ControlClause
    /\ db.Policy # {}


\* C27: a Policy that was stored before a pass is stored after it with the
\* same policy_gathered_from; a Policy the section-based pass adds has "TC",
\* one the Eramba control pass or the Eramba policy ingestion adds has "ER",
\* and no other pass adds a Policy.
C27_GatheredFromFixed ==
    /\ \A q \in before.Policy : \E p \in db.Policy :
          p.id = q.id /\ p.policy_gathered_from = q.policy_gathered_from
    /\ \A p \in Added("Policy") :
          /\ last.op \in {"populate_database", "get_eramba_controls",
                          "ingest_policies_from_eramba"}
          /\ p.policy_gathered_from =
                IF last.op = "populate_database" THEN "TC" ELSE "ER"

\* the ingestion overwrote the policy_template of a policy of the
\* section-based pass, found by its title
C27_Witness ==
    /\ last.op = "ingest_policies_from_eramba" /\ last.stats.updated = 1
    /\ \E q \in before.Policy, p \in db.Policy :
          /\ p.id = q.id /\ p.policy_template # q.policy_template
          /\ p.policy_gathered_from = "TC"


----------------------------------------------------------------------------
(* Properties of the batcher: failed runs *)

\* tuples i < j of one batch have one key that no row had before the run
\* and no tuple of an earlier batch has
TwiceInBatch(all_standards, i, j) ==
    /\ i < j /\ BatchOf(i) = BatchOf(j)
    /\ StandardKey(all_standards[i]) = StandardKey(all_standards[j])
    /\ \A r \in before.FrameworkStandard :
          StandardKey(r) # StandardKey(all_standards[i])
    /\ \A k \in DOMAIN all_standards :
          BatchOf(k) < BatchOf(i) =>
              StandardKey(all_standards[k]) # StandardKey(all_standards[i])

\* C26: no two FrameworkStandard rows have one key; a run that raised left
\* every table as it was; and a run whose list has one key twice in one
\* batch, with no row of that key stored by then, raised.
C26_DuplicateInBatchRollsBack ==
    /\ \A r, q \in db.FrameworkStandard : StandardKey(r) = StandardKey(q) => r = q
    /\ last.op = "map_controls_to_standards" =>
          /\ last.status = "raised" => db = before
          /\ (\E i, j \in DOMAIN last.stats.all_standards :
                 TwiceInBatch(last.stats.all_standards, i, j))
                => last.status = "raised"

\* a run whose first batch created rows and whose second batch holds one new
\* key twice raised
C26_Witness ==
    /\ last.op = "map_controls_to_standards" /\ last.status = "raised"
    /\ Len(last.stats.batches) >= 2
    /\ last.stats.batches[1].to_create # <<>>
    /\ \E i, j \in DOMAIN last.stats.all_standards :
          BatchOf(i) >= 1 /\ TwiceInBatch(last.stats.all_standards, i, j)
    /\ db = before


----------------------------------------------------------------------------
(* Properties of passes that end early *)

\* the status of a pass that an exception ended
Aborted ==
    {"raised", "error", "500"}

\* C21: a pass that an exception ended part-way left the database as it
\* was before the pass, while a section-based pass that recorded errors
\* kept the clauses of the files it does not list.
C21_AbortedPassRollsBack ==
    /\ last.status \in Aborted => db = before
    /\ last.op = "populate_database" =>
          \A f \in DOMAIN last.input :
              (\A e \in DOMAIN last.stats.errors :
                  last.stats.errors[e] # last.input[f].stem) =>
                  \A s \in DOMAIN last.input[f].data :
                      ClauseStored(db, cert_name_of_stem(last.input[f].stem),
                                   last.input[f].data[s].referenceId)


----------------------------------------------------------------------------
(* The views that fetch: one request, or a thread pool and as_completed() *)

\* what a request comes to: a JSON body (kind "json"), a body that is not
\* JSON, a status that is not 200, a timeout, no connection
Response(kind, body) == [kind |-> kind, body |-> body]

Json(x) == Response("json", <<x>>)

RequestFailures ==
    {Response(k, <<>>) : k \in {"timeout", "unreachable", "status", "invalid_json"}}

\* the response of a view that gave up before it read or wrote a row
Failed(d, status, message) ==
    [db |-> d, status |-> status, stats |-> [message |-> message]]

\* views.py 432-444, then the loop: Timeout is answered 504, any other
\* RequestException (raise_for_status included) 500, a ValueError of json() 502
frameworks_request(d, response) ==
    CASE response.kind = "timeout" -> Failed(d, "504", "timed out")
      [] response.kind \in {"unreachable", "status"} -> Failed(d, "500", "request failed")
      [] response.kind = "invalid_json" -> Failed(d, "502", "invalid JSON")
      [] OTHER -> pulling_eramba_frameworkds(d, response.body[1])

\* views.py 701-707 and 810-815: every exception of the request and of
\* json() is answered with status "error"
controls_request(d, response) ==
    IF response.kind # "json" THEN Failed(d, "error", "request failed")
    ELSE get_eramba_controls(d, response.body[1])

\* utils.py 196-201 under views.py 484-490: a status that is not 200 is
\* returned as success False; the exception of requests.get() and the
\* ValueError of json() are caught nowhere
ingest_request(d, response) ==
    CASE response.kind = "status" -> Failed(d, "failure", "failed to fetch")
      [] response.kind \in {"timeout", "unreachable", "invalid_json"} ->
            Failed(d, "raised", "exception")
      [] OTHER -> ingest_policies_from_eramba(d, response.body[1])

\* the body of the proxy when the upstream has no such record
InternalServerError == [message |-> "Internal server error"]

\* views.py 516-526: the worker of get_eramba_clauses; <<>> is None
fetch_clause(response) ==
    IF response.kind \in {"timeout", "unreachable", "invalid_json"} THEN <<>>
    ELSE IF response.body[1] # InternalServerError THEN response.body
    ELSE <<>>

\* the dict made of a body that is not a JSON object
HtmlPolicy == [title |-> "IT Security Policy", description |-> "html"]

\* utils.py 154-177: the worker of fetch_policies_parallel; <<>> is None
fetch_policy(response) ==
    CASE response.kind = "json" -> response.body
      [] response.kind = "invalid_json" -> <<HtmlPolicy>>
      [] OTHER -> <<>>

\* every result appended, None (here a record of its own) as well
collect_every_result(list, result) ==
    Append(list, IF result = <<>> THEN [none |-> TRUE] ELSE result[1])

\* views.py 532-534, utils.py 186-188: `if result: list.append(result)`
collect(list, result) ==
    IF result = <<>> THEN list ELSE Append(list, result[1])

\* the futures submitted to one pool (range(100), range(10, 101)) and the
\* length at which fetch_policies_parallel stops collecting (utils.py 114)
MaxWorkers == 2
MAX_POLICIES == 1

Workers == 1..MaxWorkers

\* a pool is fetching: a future is running or waits to be collected
Fetching == futures # <<>>

Rank(i) == futures[i].at

\* executor.submit for every id: all workers start
Submit(fn, responses) ==
    /\ ~ Fetching
    /\ passes < MaxRuns
    /\ futures' = [i \in Workers |->
                      [fn |-> fn, state |-> "running", response |-> responses[i],
                       result |-> <<>>, at |-> 0]]
    /\ collected' = <<>>
    /\ UNCHANGED <<db, last, before, prev, passes, threads>>

\* one worker returns; `at` is its place in the order of completion
WorkerReturns(i) ==
    /\ i \in DOMAIN futures
    /\ futures[i].state = "running"
    /\ futures' = [futures EXCEPT
          ![i].state = "finished",
          ![i].result = IF futures[i].fn = "fetch_clause"
                        THEN fetch_clause(futures[i].response)
                        ELSE fetch_policy(futures[i].response),
          ![i].at = 1 + Cardinality({j \in Workers : futures[j].state # "running"})]
    /\ UNCHANGED <<db, last, before, prev, passes, collected, threads>>

\* the loop over as_completed(futures) takes the next finished future;
\* fetch_policies_parallel leaves the loop at MAX_POLICIES (utils.py 189-192)
AsCompleted(i) ==
    /\ i \in DOMAIN futures
    /\ futures[i].state = "finished"
    /\ \A j \in Workers : futures[j].state = "finished" => Rank(i) <= Rank(j)
    /\ futures[i].fn = "fetch_policy" => Len(collected) < MAX_POLICIES
    /\ futures' = [futures EXCEPT ![i].state = "collected"]
    /\ collected' = collect(collected, futures[i].result)
    /\ UNCHANGED <<db, last, before, prev, passes, threads>>

\* the view goes on after the `with` block and returns: the executor and
\* the list of the results go with the call
Join(name, ret) ==
    /\ db' = ret.db
    /\ last' = [op |-> name, input |-> collected, status |-> ret.status,
                stats |-> ret.stats]
    /\ before' = db
    /\ prev' = Prev(name, collected)
    /\ passes' = passes + 1
    /\ futures' = <<>>
    /\ collected' = <<>>
    /\ UNCHANGED threads

\* views.py 546-685: the reconciliation of the collected clauses
GetErambaClausesReconcile ==
    /\ Fetching
    /\ \A i \in Workers :
          futures[i].fn = "fetch_clause" /\ futures[i].state = "collected"
    /\ Join("get_eramba_clauses", get_eramba_clauses(db, collected))

\* views.py 417-424: pulling_policies_from_eramba returns the policies; the
\* exit of the `with` block has waited for the workers that were running
PullingPoliciesFromEramba ==
    /\ Fetching
    /\ \A i \in Workers :
          futures[i].fn = "fetch_policy" /\ futures[i].state # "running"
    /\ \/ Len(collected) >= MAX_POLICIES
       \/ \A i \in Workers : futures[i].state = "collected"
    /\ Join("pulling_policies_from_eramba",
            [db |-> db, status |-> "200",
             stats |-> [policies_count |-> Len(collected)]])

\* the regulator documents the proxy serves: SOC 2, SOC 2 as another record
\* holds it (another version, the item under another name)
SecondRecord(r) ==
    [r EXCEPT !.data.version = "2",
              !.data.compliance_packages[1].compliance_package_items[1].name = "other"]

ClauseResponses ==
    {Json(r) : r \in {q \in Regulators : q.data.name[1] = "S"}}
    \cup {Json(SecondRecord(r)) : r \in {q \in Regulators : q.data.name[1] = "S"}}
    \cup {Response("status", <<InternalServerError>>), Response("timeout", <<>>)}

PolicyResponses ==
    {Json([title |-> "Ac", description |-> "t1"]), Response("invalid_json", <<>>),
     Response("status", <<>>)}

\* the responses in an order of their own, to give each multiset of
\* responses to the workers once
Ordered(S) == CHOOSE f \in [1..Cardinality(S) -> S] : \A x \in S : \E i \in DOMAIN f : f[i] = x

Assignments(S) ==
    {[i \in Workers |-> Ordered(S)[g[i]]] :
        g \in {h \in [Workers -> 1..Cardinality(S)] :
                  \A i \in Workers : i > 1 => h[i - 1] <= h[i]}}

SubmitClauses ==
    \E rs \in Assignments(ClauseResponses) : Submit("fetch_clause", rs)

SubmitPolicies ==
    \E rs \in Assignments(PolicyResponses) : Submit("fetch_policy", rs)

FrameworksRequest ==
    /\ ~ Fetching
    /\ passes < MaxRuns
    /\ \E r \in RequestFailures
              \cup {Json(<<RegulatorRecord(<<"S", "O", "C", " ", "2">>, "3")>>)} :
          Pass("pulling_eramba_frameworkds", r, frameworks_request(db, r))

ControlsRequest ==
    /\ ~ Fetching
    /\ passes < MaxRuns
    /\ \E r \in RequestFailures \cup {Json(d) : d \in ServiceDocuments} :
          Pass("get_eramba_controls", r, controls_request(db, r))

IngestRequest ==
    /\ ~ Fetching
    /\ passes < MaxRuns
    /\ \E r \in RequestFailures
              \cup {Json(<<PolicyItem(Txt("E", "p"), <<"7">>, <<"2">>, "t1")>>)} :
          Pass("ingest_policies_from_eramba", r, ingest_request(db, r))

NextFetch ==
    \/ SubmitClauses
    \/ SubmitPolicies
    \/ \E i \in Workers : WorkerReturns(i)
    \/ \E i \in Workers : AsCompleted(i)
    \/ GetErambaClausesReconcile
    \/ PullingPoliciesFromEramba
    \/ FrameworksRequest
    \/ ControlsRequest
    \/ IngestRequest

SpecFetch == Init /\ [][NextFetch]_vars


----------------------------------------------------------------------------
(* Properties of the views that fetch *)

\* the statuses of a response that reports a failure
FailureStatus ==
    {"504", "502", "500", "error", "failure"}

\* C22: a pass whose upstream fetch failed answered with a failure status
\* and left the database as it was: the certification sync, the Eramba
\* control pass and the Eramba policy ingestion when their request did not
\* come to a JSON body, the Eramba clause pass when no worker got one.
C22_FetchFailureReported ==
    /\ ( /\ last.op \in {"pulling_eramba_frameworkds", "get_eramba_controls",
                         "ingest_policies_from_eramba"}
         /\ last.input.kind # "json" )
          => (db = before /\ last.status \in FailureStatus)
    /\ (last.op = "get_eramba_clauses" /\ last.input = <<>>)
          => (db = before /\ last.status \in FailureStatus)


\* what a worker returns for its response
WorkerResult(f) ==
    IF f.fn = "fetch_clause" THEN fetch_clause(f.response) ELSE fetch_policy(f.response)

\* C24: a future that is done holds None or the one record parsed from its
\* response; the collected list holds results of futures that returned a
\* record, one for each future collected with a record; and a step that
\* changes the database is taken when no worker is running, so that no
\* worker's step writes.
C24_WorkersOnlyFetch ==
    /\ [](/\ \A i \in DOMAIN futures :
                futures[i].state # "running" =>
                    /\ futures[i].result = WorkerResult(futures[i])
                    /\ Len(futures[i].result) <= 1
          /\ Fetching =>
                /\ \A k \in DOMAIN collected :
                      \E i \in DOMAIN futures :
                          /\ futures[i].state = "collected"
                          /\ futures[i].result = <<collected[k]>>
                /\ Len(collected) =
                      Cardinality({i \in DOMAIN futures :
                                      /\ futures[i].state = "collected"
                                      /\ futures[i].result # <<>>}))
    /\ [][db' # db => \A i \in DOMAIN futures : futures[i].state # "running"]_vars

\* every future of a clause pass is collected: one worker had returned
\* None, another a record, and the list holds the record alone
C24_Witness ==
    /\ Fetching
    /\ \A i \in DOMAIN futures :
          futures[i].fn = "fetch_clause" /\ futures[i].state = "collected"
    /\ \E i, j \in DOMAIN futures :
          futures[i].result = <<>> /\ futures[j].result # <<>>
    /\ Len(collected) = 1


\* the orders in which a list of fetched records can have been collected
Orders(s) ==
    {[i \in DOMAIN s |-> s[p[i]]] :
        p \in {q \in [DOMAIN s -> DOMAIN s] :
                  \A i, j \in DOMAIN s : q[i] = q[j] => i = j}}

\* a row without its primary key
Fields(r) == [f \in DOMAIN r \ {"id"} |-> r[f]]

CertificationName(d, pk) ==
    (CHOOSE c \in d.Certification : c.id = pk).name

\* the certifications, the clauses and their edges, with names and
\* reference ids in the place of primary keys
Outcome(d) ==
    [Certification |-> {Fields(c) : c \in d.Certification},
     Clause |-> {[Fields(c) EXCEPT !.certification = CertificationName(d, @)] :
                    c \in d.Clause},
     PolicyClause |->
        {<<CertificationName(d, c.certification), c.reference_id, e.policy>> :
            <<c, e>> \in {x \in d.Clause \X d.PolicyClause : x[2].clause = x[1].id}},
     ControlClause |->
        {<<CertificationName(d, c.certification), c.reference_id, e.control>> :
            <<c, e>> \in {x \in d.Clause \X d.ControlClause : x[2].clause = x[1].id}}]

\* C29: the certifications, the clauses and the edges that the Eramba
\* clause pass leaves are those it leaves for every other order of the
\* same fetched records, from the same database.
C29_CompletionOrderIrrelevant ==
    last.op = "get_eramba_clauses" =>
        \A o \in Orders(last.input) :
            Outcome(get_eramba_clauses(before, o).db) = Outcome(db)


----------------------------------------------------------------------------
(* get_eramba_controls served to two requests at once: every statement the
   view sends to the database is one step, and the steps of the two
   handlers interleave; the view opens no transaction *)

Handlers == {1, 2}

\* the documents whose services all carry an objective
RaceDocuments ==
    {data \in ServiceDocuments : \A i \in DOMAIN data : data[i].objective # None}

\* handler t is about to send the statement named pc
At(t, pc) == threads # <<>> /\ threads[t].pc = pc

Running == threads # <<>> /\ \E t \in Handlers : threads[t].pc # "done"

\* views.py 756-760: the next entry of security_policies that has a title
RECURSIVE NextTitled(_, _)
NextTitled(policies_data, j) ==
    IF j > Len(policies_data) THEN j
    ELSE IF policies_data[j].index = NoneS \/ policies_data[j].index = <<>>
    THEN NextTitled(policies_data, j + 1)
    ELSE j

\* views.py 711, 802-808: the next security service, or the success summary
NextItem(th) ==
    IF th.i + 1 > Len(th.data)
    THEN [th EXCEPT !.i = th.i + 1, !.pc = "done", !.status = "success"]
    ELSE [th EXCEPT !.i = th.i + 1, !.pc = "control_lookup"]

\* views.py 755-756: the policy entry at j or after it, else the next item
EnterPolicy(th, j) ==
    LET policies_data == th.data[th.i].security_policies
        k == NextTitled(policies_data, j)
    IN IF k > Len(policies_data) THEN NextItem(th)
       ELSE [th EXCEPT !.j = k, !.pc = "policy_lookup"]

\* views.py 813-815: an exception that leaves the loop
HandlerError(th) == [th EXCEPT !.pc = "done", !.status = "error"]

\* views.py 688-713: both handlers have received the same document
StartHandlers ==
    /\ ~Running
    /\ passes < MaxRuns
    /\ \E data \in RaceDocuments :
           threads' = [t \in Handlers |->
                          [data |-> data, i |-> 1, j |-> 1, pc |-> "control_lookup",
                           status |-> "running", current_control |-> NoRow,
                           policy_obj |-> NoRow, controls_processed |-> 0,
                           policies_processed |-> 0,
                           policies_linked_to_controls |-> 0]]
    /\ before' = db
    /\ passes' = passes + 1
    /\ UNCHANGED <<db, last, prev, futures, collected>>

\* views.py 716-733: the description is built, then the control is looked up
ControlLookup(t) ==
    LET th == threads[t]
        item == th.data[th.i]
        current_control == Control_by_short_name(db, item.id)
    IN /\ At(t, "control_lookup")
       /\ threads' = [threads EXCEPT ![t] =
              IF item.objective = None THEN HandlerError(th)
              ELSE IF current_control # NoRow
              THEN EnterPolicy([th EXCEPT !.current_control = current_control], 1)
              ELSE [th EXCEPT !.pc = "control_create"]]
       /\ UNCHANGED <<db, last, before, prev, passes, futures, collected>>

\* views.py 735-752: the INSERT of the control; IntegrityError skips the item
ControlCreate(t) ==
    LET th == threads[t]
        item == th.data[th.i]
        r == Control_create(db,
                 [short_name |-> item.id, custom_short_name |-> None,
                  name |-> item.name, description |-> item.objective,
                  original_id |-> None])
    IN /\ At(t, "control_create")
       /\ db' = r.db
       /\ threads' = [threads EXCEPT ![t] =
              IF r.exc THEN NextItem(th)
              ELSE EnterPolicy([th EXCEPT !.current_control = r.obj,
                                          !.controls_processed = @ + 1], 1)]
       /\ UNCHANGED <<last, before, prev, passes, futures, collected>>

\* views.py 763: Policy.objects.filter(title=policy_title).first()
PolicyLookup(t) ==
    LET th == threads[t]
        policy_title == th.data[th.i].security_policies[th.j].index
        policy_obj == First({p \in db.Policy : p.title = policy_title})
    IN /\ At(t, "policy_lookup")
       /\ threads' = [threads EXCEPT ![t] =
              IF policy_obj # NoRow
              THEN [th EXCEPT !.policy_obj = policy_obj, !.pc = "link_exists"]
              ELSE [th EXCEPT !.pc = "policy_create"]]
       /\ UNCHANGED <<db, last, before, prev, passes, futures, collected>>

\* views.py 768-789: the INSERT of the policy under fresh identifiers; an
\* exception skips the entry
PolicyCreate(t) ==
    LET th == threads[t]
        policy_title == th.data[th.i].security_policies[th.j].index
        base_slug == slugify(policy_title)
        r == Policy_create(db,
                 [policy_id |-> base_slug \o <<"-", uuid4_hex(db, 0)>>,
                  policy_reference |->
                      base_slug \o <<"-", "r", "e", "f", "-", uuid4_hex(db, 1)>>,
                  title |-> policy_title, policy_gathered_from |-> "ER",
                  security_group |-> None, policy_doc |-> None,
                  policy_version |-> None, policy_template |-> None])
    IN /\ At(t, "policy_create")
       /\ db' = r.db
       /\ threads' = [threads EXCEPT ![t] =
              IF r.exc THEN EnterPolicy(th, th.j + 1)
              ELSE [th EXCEPT !.policy_obj = r.obj, !.policies_processed = @ + 1,
                              !.pc = "link_exists"]]
       /\ UNCHANGED <<last, before, prev, passes, futures, collected>>

\* views.py 794: current_control.policies.filter(pk=policy_obj.pk).exists()
LinkExists(t) ==
    LET th == threads[t]
    IN /\ At(t, "link_exists")
       /\ threads' = [threads EXCEPT ![t] =
              IF Linked(db.PolicyControl, "control", "policy",
                        th.current_control.id, th.policy_obj.id)
              THEN EnterPolicy(th, th.j + 1)
              ELSE [th EXCEPT !.pc = "add_missing"]]
       /\ UNCHANGED <<db, last, before, prev, passes, futures, collected>>

\* views.py 795: add() first selects the link rows that exist; it has
\* nothing to insert when the link is there
AddMissing(t) ==
    LET th == threads[t]
    IN /\ At(t, "add_missing")
       /\ threads' = [threads EXCEPT ![t] =
              IF Linked(db.PolicyControl, "control", "policy",
                        th.current_control.id, th.policy_obj.id)
              THEN EnterPolicy([th EXCEPT !.policies_linked_to_controls = @ + 1],
                               th.j + 1)
              ELSE [th EXCEPT !.pc = "add_insert"]]
       /\ UNCHANGED <<db, last, before, prev, passes, futures, collected>>

\* views.py 795-796: add() inserts the link row; models.py 144-149: the
\* pair is unique together, and the IntegrityError leaves the loop
AddInsert(t) ==
    LET th == threads[t]
        linked == Linked(db.PolicyControl, "control", "policy",
                         th.current_control.id, th.policy_obj.id)
    IN /\ At(t, "add_insert")
       /\ db' = IF linked THEN db
                ELSE [db EXCEPT !.PolicyControl =
                          M2M_add_unchecked(@, "control", "policy",
                                            th.current_control.id, th.policy_obj.id)]
       /\ threads' = [threads EXCEPT ![t] =
              IF linked THEN HandlerError(th)
              ELSE EnterPolicy([th EXCEPT !.policies_linked_to_controls = @ + 1],
                               th.j + 1)]
       /\ UNCHANGED <<last, before, prev, passes, futures, collected>>

NextRace ==
    \/ StartHandlers
    \/ \E t \in Handlers : ControlLookup(t)
    \/ \E t \in Handlers : ControlCreate(t)
    \/ \E t \in Handlers : PolicyLookup(t)
    \/ \E t \in Handlers : PolicyCreate(t)
    \/ \E t \in Handlers : LinkExists(t)
    \/ \E t \in Handlers : AddMissing(t)
    \/ \E t \in Handlers : AddInsert(t)

SpecRace == Init /\ [][NextRace]_vars

BothReturned == threads # <<>> /\ \A t \in Handlers : threads[t].pc = "done"

\* the rows a security service and one of its policy titles stand for
ControlRows(item) == {c \in db.Control : c.short_name = item.id}
PolicyRows(title) == {p \in db.Policy : p.title = title}
LinkRows(item, title) ==
    {e \in db.PolicyControl :
        /\ \E c \in ControlRows(item) : e.control = c.id
        /\ \E p \in PolicyRows(title) : e.policy = p.id}

\* C28: when two get_eramba_controls passes run at once over one document,
\* under every interleaving both end with the success summary, and the store
\* holds one Control per short_name, one Policy per referenced title and
\* one link per control-policy pair of the document
C28_ConcurrentPassesConverge ==
    BothReturned =>
        /\ \A t \in Handlers : threads[t].status = "success"
        /\ \A i \in DOMAIN threads[1].data :
               LET item == threads[1].data[i]
               IN /\ Cardinality(ControlRows(item)) = 1
                  /\ \A j \in DOMAIN item.security_policies :
                         LET title == item.security_policies[j].index
                         IN /\ Cardinality(PolicyRows(title)) = 1
                            /\ Cardinality(LinkRows(item, title)) = 1

====
